---- MODULE Spec2Model ----
(***************************************************************************)
(* State-machine model of the options-quant trading core:                  *)
(*   - core/strategy.py          WeightageCalculator, Strategy (signals)   *)
(*   - core/oms/position_manager.py  PositionManager (fills, P&L, TSL)     *)
(*                                                                         *)
(* Conventions                                                             *)
(*   - Scores are multiples of 0.5 in the code; the model stores 2*score   *)
(*     as an integer (names ending in 2).  avg_score = sum/len is compared *)
(*     with a threshold t as  sum2 >= t2 * len.                            *)
(*   - Prices, average prices and P&L are Python floats; the model uses    *)
(*     exact rationals <<numerator, denominator>> in lowest terms.         *)
(*   - Timestamps are POSIX seconds (positive integers).                   *)
(***************************************************************************)
EXTENDS Integers, Sequences, FiniteSets, TLC

VARIABLES
    \* ---- core/strategy.py : WeightageCalculator
    open_prices,        \* symbol -> price   (dict, domain grows)
    current_prices,     \* symbol -> price
    current_volumes,    \* symbol -> volume
    initial_volumes,    \* symbol -> volume
    \* ---- core/strategy.py : Strategy
    position,           \* "NONE" | "CE" | "PE" | "STRADDLE"
    last_signal_time,   \* timestamp of the last emitted signal, 0 initially
    score_buffer,       \* Seq of 2*score
    price_history,      \* Seq of <<timestamp, price>>
    \* ---- core/config.py flags read by Strategy.on_tick
    SIMULATION_MODE,
    ENABLE_STRADDLES,
    \* ---- environment / observation of Strategy.on_tick
    now,                \* timestamp of the latest tick
    ret_signal,         \* value returned by the latest on_tick: "NONE" or a type
    nTicks,             \* number of on_tick calls so far
    emitted,            \* Seq of <<type, timestamp>> of all signals returned
    \* ---- core/oms/position_manager.py : PositionManager
    positions,          \* key -> position record
    pos_order,          \* Seq of keys in dict insertion order
    realized_pnl,       \* manager-wide realized P&L (rational)
    db_positions,       \* persisted rows: key -> [net_qty, avg_price, realized_pnl]
    db_realized_pnl,    \* persisted scalar "realized_pnl"
    \* ---- observation of the latest PositionManager call
    last_op,            \* record describing the latest call and its pre-state
    fill_log,           \* key -> Seq of <<signed qty, price>> since the key was last flat
    nOps,               \* number of PositionManager calls so far
    \* ---- core/candles.py : the two CandleResampler objects of TickEngine
    resampler_3m,       \* [current_candle, candles]
    resampler_5m,
    cand_obs,           \* observation of the latest process_tick on resampler_3m
    \* ---- core/feed.py : TickEngine
    vwap_map,           \* symbol -> [cum_vol, cum_pv, last_vol]
    latest_prices,      \* market_data.latest_prices: symbol -> payload
    tracked_atms,       \* symbol -> ATM strike
    auto_trading_enabled,
    PAPER_TRADING_MODE, \* core/config.py flag, switchable at run time
    order_log,          \* every order the engine placed or tried to place
    paper_position,     \* PaperTradingEngine.current_position
    feed_obs,           \* observation of the latest TickEngine call
    nFeed,              \* number of TickEngine calls so far
    \* ---- the two threads that call PositionManager
    ws_pc,              \* websocket thread: statement of on_fill it is about to run
    ws_frame,           \* locals of the running on_fill
    api_pc,             \* API thread: statement of update_pnl it is about to run
    api_frame,          \* locals of the running update_pnl
    \* ---- fixed at construction / start-up
    weights,            \* WeightageCalculator.weights: symbol -> weight
    HEDGED_ENTRIES,     \* core/config.py flag read by execute_signal
    threshold,          \* 2 * Strategy.threshold (min_strength)
    \* ---- observation of the latest WeightageCalculator call
    wc_obs,             \* [op, ret, calls]
    \* ---- observation of the arguments of the latest Strategy.on_tick call
    score_obs           \* [price, vwap, macro_trend]

stratVars == <<open_prices, current_prices, current_volumes, initial_volumes,
               position, last_signal_time, score_buffer, price_history,
               SIMULATION_MODE, ENABLE_STRADDLES, now, ret_signal, nTicks, emitted>>
pmVars == <<positions, pos_order, realized_pnl, db_positions, db_realized_pnl,
            last_op, fill_log, nOps>>
candleVars == <<resampler_3m, resampler_5m, cand_obs>>
engineVars == <<vwap_map, latest_prices, tracked_atms, auto_trading_enabled,
                PAPER_TRADING_MODE, order_log, paper_position, feed_obs, nFeed>>
threadVars == <<ws_pc, ws_frame, api_pc, api_frame>>
setupVars == <<weights, HEDGED_ENTRIES, threshold, wc_obs, score_obs>>
vars == <<stratVars, pmVars, candleVars, engineVars, threadVars, setupVars>>

(***************************************************************************)
(* Exact rational arithmetic (stands for the float arithmetic of the code) *)
(***************************************************************************)
Abs(x) == IF x < 0 THEN -x ELSE x
Min(a, b) == IF a < b THEN a ELSE b
Max(a, b) == IF a > b THEN a ELSE b

RECURSIVE GCD(_, _)
GCD(a, b) == IF b = 0 THEN a ELSE GCD(b, a % b)

RNorm(n, d) ==
    LET s == IF d < 0 THEN -1 ELSE 1
        g == GCD(Abs(n), Abs(d))
    IN  IF n = 0 THEN <<0, 1>> ELSE <<(s * n) \div g, (s * d) \div g>>

RInt(i)      == <<i, 1>>
RZero        == <<0, 1>>
RAdd(a, b)   == RNorm(a[1] * b[2] + b[1] * a[2], a[2] * b[2])
RSub(a, b)   == RNorm(a[1] * b[2] - b[1] * a[2], a[2] * b[2])
RMul(a, b)   == RNorm(a[1] * b[1], a[2] * b[2])
RDiv(a, b)   == RNorm(a[1] * b[2], a[2] * b[1])
RLt(a, b)    == a[1] * b[2] < b[1] * a[2]
RLe(a, b)    == a[1] * b[2] <= b[1] * a[2]
RIsZero(a)   == a[1] = 0

(***************************************************************************)
(* Bounds and input sets                                                   *)
(***************************************************************************)
MaxTicks == 4                       \* on_tick calls explored
MinConfirmation == 2                \* Strategy(min_confirmation=...)
TickPrices == {100, 160}            \* index prices fed to on_tick
TickDeltas == {30, 130}             \* seconds between consecutive ticks
TickVwaps == {130}                  \* vwap argument, between the two prices
MacroTrends == {"BULLISH", "BEARISH", "NEUTRAL"}

MaxCandleTicks == 4                 \* process_tick calls explored by SpecCandles
SessionOpen == 33300                \* 09:15:00 as wall-clock seconds of the day
CandlePrices == {90, 100, 110}
CandleTimes == {SessionOpen + 30, SessionOpen + 100, SessionOpen + 200, SessionOpen + 580}
CandleVolume == 10

MaxFeedTicks == 3                   \* TickEngine.on_tick calls explored by SpecFeed
FeedDelta == 70                     \* seconds between ticks of the feed
FeedPrices == {-100, 0, 100, 110}   \* 'lp' of a tick
FeedVolumes == {0, 10, 20}          \* 'v' of a tick (cumulative volume)
\* <<symbol, price, volume, 'o' in tick>> of the ticks explored by SpecFeed
FeedInputs ==
    ({"BANKNIFTY"} \X FeedPrices \X FeedVolumes \X {FALSE})
    \cup ({"HDFCBANK"} \X FeedPrices \X FeedVolumes \X {FALSE})

MaxSeedTicks == 3                   \* TickEngine.on_tick calls explored by SpecSeed
\* today's 1-minute candles <<into, intc, intv>> returned by get_history
SeedHistories == {<<>>, << <<100, 100, 0>> >>, << <<100, 100, 15>> >>,
                  << <<90, 100, 10>>, <<100, 120, 5>> >>}
IndexHistories == {<<>>, << <<100, 100, 0>> >>}
\* <<symbol, price, volume, 'o' in tick>> of the ticks explored by SpecSeed
SeedInputs ==
    ({"HDFCBANK"} \X {100, 110} \X {0, 10, 20} \X {FALSE})
    \cup ({"BANKNIFTY"} \X {100} \X {0, 10} \X {FALSE})

MaxStrengthTicks == 4               \* basket ticks explored by SpecStrength
\* <<symbol, price, volume, 'o' in tick>> of the ticks explored by SpecStrength
StrengthInputs == {"HDFCBANK", "ICICIBANK"} \X {-100, 100, 110} \X {0} \X BOOLEAN

MaxEngineOps == 4                   \* TickEngine calls explored by SpecOrders
BrokerReplies == {<<>>, <<"none">>, <<"raise">>}   \* answers of shoonya.place_order
ManualSymbol == "BANKNIFTY26NOV26C100"
\* <<side, price>> of the manual orders explored by SpecOrders
ManualInputs == {"BUY", "SELL"} \X {0, 90}
\* <<status, avg_prc>> of the order updates; avg_prc 0 stands for a missing field
UpdateInputs == {<<"OPEN", 0>>, <<"COMPLETE", 100>>, <<"COMPLETE", 0>>}

MaxThreadCalls == 3                 \* PositionManager calls started under SpecThreads
\* <<key, quantity, price, side>> of the fills the websocket thread applies
ThreadFillInputs == ({<<"BANKNIFTY_CE", "I">>} \X {10} \X {100, 120} \X {"BUY", "SELL"})
                    \cup ({<<"BANKNIFTY_CE", "M">>} \X {10} \X {100} \X {"BUY"})
\* market_data.latest_prices as the API thread passes it to update_pnl
ThreadSnapshots == {[x \in {} |-> 0], [x \in {"BANKNIFTY_CE"} |-> <<110, 1>>]}

MaxCalcCalls == 4                   \* WeightageCalculator calls explored by SpecWeightage
\* the weights of the unit-test fixture (test_strategy.py)
FixtureWeights == [HDFCBANK |-> 50, ICICIBANK |-> 50]
\* symbols and prices passed to update_data / set_open_price; SBIN is no member
CalcSymbols == {"HDFCBANK", "ICICIBANK", "SBIN"}
CalcPrices == {0, 1000, 1010}

MaxScoreTicks == 3                  \* Strategy.on_tick calls explored by SpecScore
ScorePrices == {100, 130, 160}
ScoreVwaps == {0, 130}              \* 0: the default argument, no reference
\* <<open, current>> of HDFCBANK: strengths 28, 14, 10, -28 and -14
ScoreBaskets == {<<100, 101>>, <<200, 201>>, <<280, 281>>, <<100, 99>>, <<200, 199>>}

MaxMomentumTicks == 4               \* Strategy.on_tick calls explored by SpecMomentum
MomentumPrices == {100, 130, 160}
MomentumDeltas == {30, 120, 400}    \* seconds between consecutive ticks

MaxProductOps == 3                  \* TickEngine calls explored by SpecProducts
ProductTypes == {"I", "M"}          \* product_type of a manual order: MIS, NRML

MaxEntryTicks == 3                  \* Strategy.on_tick calls explored by SpecEntry
LowStrength2 == 2                   \* 2 * min_strength of Strategy(wc, min_strength=1.0)

MaxExitOps == 3                     \* TickEngine calls explored by SpecExit
\* (instrument, product) keys of the books explored by SpecExit
XC == <<"BANKNIFTY26NOV26C100", "M">>
XP == <<"BANKNIFTY26NOV26P100", "I">>
XL == <<"BANKNIFTY26NOV26C200", "M">>
XS == <<"HDFCBANK", "I">>
\* answers of shoonya.place_order to the coming calls of one handler
ExitReplies == {<<>>, <<"raise">>, <<"none">>, <<"ok", "raise">>}
\* seconds between two ticks: the next tick, or one past AUTO_EXIT_TIME
ExitDeltas == {70, 200}

MaxRestartOps == 3                  \* PositionManager calls explored by SpecRestart
\* <<key, quantity, price, side>> of the fills explored by SpecRestart
RestartFillInputs ==
    ({<<"BANKNIFTY_CE", "I">>} \X {10, 20} \X {100, 110} \X {"BUY", "SELL"})
    \cup ({<<"BANKNIFTY_CE", "M">>} \X {10} \X {100} \X {"BUY", "SELL"})

MaxSignalCalls == 2                 \* execute_signal calls explored by SpecLegs
SignalTypes == {"BUY_CE", "BUY_PE", "BUY_STRADDLE", "EXIT"}
SignalPrices == {49960, 50020, 50050, 50150}
\* <<open, current>> of HDFCBANK: strengths 0, 7, 14, -14, 8 and 6.5
BasketStates == {<<400, 400>>, <<400, 401>>, <<400, 402>>, <<400, 398>>,
                 <<350, 351>>, <<5600, 5613>>}

MaxFills == 3                       \* on_fill calls explored by SpecFills
MaxOps == 5                         \* PositionManager calls explored by SpecTSL
K1 == <<"BANKNIFTY_CE", "I">>       \* (instrument, product) keys
K2 == <<"BANKNIFTY_CE", "M">>
Sides == {"BUY", "SELL"}
\* <<key, quantity, price, side>> of the fills explored by SpecFills
FillInputs ==
    ({K1} \X {5, 10, 15} \X {100, 110, 120} \X Sides)
    \cup ({K2} \X {10} \X {100, 120} \X Sides)
\* <<key, quantity, side>> of the fills that arrive without a fill price
UnpricedFillInputs == {K1} \X {5, 10, 15} \X Sides
\* fills and price snapshots explored by SpecTSL
TslFillInputs == {K1} \X {10, 20} \X {100} \X Sides
TslSnapshots ==
    {[x \in {} |-> 0]} \cup {[x \in {K1[1]} |-> <<l, 1>>] : l \in {80, 90, 100, 110, 120}}
MaxPnlOps == 4                      \* PositionManager calls explored by SpecPnl
K3 == <<"BANKNIFTY_PE", "I">>
\* <<key, quantity, price, side>>; price 0 is the fill of a COMPLETE order
\* update that carries no avg_prc
PnlFillInputs == {K1, K3} \X {10} \X {0, 100} \X Sides
\* market_data.latest_prices as passed to update_pnl: ltp per instrument
PnlSnapshots ==
    {[x \in {} |-> <<0, 1>>],
     [x \in {K1[1]} |-> <<110, 1>>],
     [x \in {K3[1]} |-> <<90, 1>>],
     [x \in {K1[1], K3[1]} |-> IF x = K1[1] THEN <<110, 1>> ELSE <<90, 1>>],
     [x \in {K1[1], K3[1]} |-> IF x = K1[1] THEN <<90, 1>> ELSE <<120, 1>>]}

(***************************************************************************)
(* Program constants                                                       *)
(***************************************************************************)
MinHoldTime == 60                   \* min_hold_time
MinStrength2 == 5                   \* 2 * min_strength (2.5)
HistoryWindow == 600                \* price_history retention, seconds
Lookback == 120                     \* momentum look-back, seconds

(***************************************************************************)
(* WeightageCalculator                                                     *)
(***************************************************************************)
Weights == [HDFCBANK |-> 28, ICICIBANK |-> 24]
Basket == DOMAIN weights

Put(f, k, v) == [x \in (DOMAIN f) \cup {k} |-> IF x = k THEN v ELSE f[x]]
EmptyMap == [x \in {} |-> 0]

\* update_data(symbol, price, volume, is_open)
update_data(symbol, price, volume, is_open) ==
    IF symbol \notin Basket
    THEN UNCHANGED <<open_prices, current_prices, current_volumes, initial_volumes>>
    ELSE /\ current_prices' = Put(current_prices, symbol, price)
         /\ current_volumes' = Put(current_volumes, symbol, volume)
         /\ IF is_open \/ symbol \notin DOMAIN open_prices
            THEN /\ open_prices' = Put(open_prices, symbol, price)
                 /\ initial_volumes' = Put(initial_volumes, symbol, volume)
            ELSE UNCHANGED <<open_prices, initial_volumes>>

\* set_open_price(symbol, price)
set_open_price(symbol, price) ==
    /\ open_prices' = IF symbol \in Basket THEN Put(open_prices, symbol, price)
                      ELSE open_prices
    /\ UNCHANGED <<current_prices, current_volumes, initial_volumes>>

\* pct_change alone, the weight left out
ContributionUnweighted(opens, currents, symbol) ==
    RMul(RDiv(RInt(currents[symbol] - opens[symbol]), RInt(opens[symbol])), RInt(100))

\* contribution of one symbol: pct_change * weight
Contribution(opens, currents, symbol) ==
    RMul(RInt(weights[symbol]),
         RMul(RDiv(RInt(currents[symbol] - opens[symbol]), RInt(opens[symbol])),
              RInt(100)))

Counted(opens, currents, symbol) ==
    /\ symbol \in DOMAIN opens
    /\ symbol \in DOMAIN currents
    /\ opens[symbol] # 0

RECURSIVE SumContrib(_, _, _)
SumContrib(opens, currents, S) ==
    IF S = {} THEN RZero
    ELSE LET s == CHOOSE x \in S : TRUE
         IN  RAdd(IF Counted(opens, currents, s) THEN Contribution(opens, currents, s)
                  ELSE RZero,
                  SumContrib(opens, currents, S \ {s}))

\* the sum over self.weights.keys() for given open and current prices
StrengthOf(opens, currents) == SumContrib(opens, currents, Basket)

calculate_weighted_strength == StrengthOf(open_prices, current_prices)

(***************************************************************************)
(* Strategy                                                                *)
(***************************************************************************)
RECURSIVE SumSeq(_)
SumSeq(s) == IF s = <<>> THEN 0 ELSE Head(s) + SumSeq(Tail(s))

\* while price_history and current_time - price_history[0][0] > 600: pop(0)
\* a history that is never cleaned up
EvictNever(h, t) == h

RECURSIVE Evict(_, _)
Evict(h, t) ==
    IF h # <<>> /\ t - Head(h)[1] > HistoryWindow THEN Evict(Tail(h), t) ELSE h

\* for t, p in reversed(price_history): if t <= lookback_time: old_price = p; break
RECURSIVE OldPrice(_, _, _)
OldPrice(h, i, lookback_time) ==
    IF i = 0 THEN Head(h)[2]
    ELSE IF h[i][1] <= lookback_time THEN h[i][2]
    ELSE OldPrice(h, i - 1, lookback_time)

MomScore2(change_points) ==
    IF change_points >= 60 THEN 3
    ELSE IF change_points >= 30 THEN 1
    ELSE IF change_points <= -60 THEN -3
    ELSE IF change_points <= -30 THEN -1
    ELSE 0

\* _calculate_momentum: new history and 2 * mom_score
NewHistory(price, t) == Evict(Append(price_history, <<t, price>>), t)

Momentum2(h, price, t) ==
    IF Len(h) < 2 THEN 0
    ELSE MomScore2(price - OldPrice(h, Len(h), t - Lookback))

TrendFactor2(price, vwap) ==
    IF RLt(RZero, vwap)
    THEN IF RLt(vwap, RInt(price)) THEN 2 ELSE IF RLt(RInt(price), vwap) THEN -2 ELSE 0
    ELSE 0

\* the macro factor with its sign inverted
MacroFactorInverted(macro_trend) ==
    IF macro_trend = "BULLISH" THEN -2 ELSE IF macro_trend = "BEARISH" THEN 2 ELSE 0

MacroFactor2(macro_trend) ==
    IF macro_trend = "BULLISH" THEN 2
    ELSE IF macro_trend = "BEARISH" THEN -2 ELSE 0

StrengthFactor2(strength) ==
    IF RLt(RInt(20), strength) THEN 3
    ELSE IF RLt(RInt(10), strength) THEN 1
    ELSE IF RLt(strength, RInt(-20)) THEN -3
    ELSE IF RLt(strength, RInt(-10)) THEN -1
    ELSE 0

SimulationBoost2(score2) ==
    IF SIMULATION_MODE /\ position = "NONE"
    THEN IF score2 > 1 THEN score2 + 3
         ELSE IF score2 < -1 THEN score2 - 3 ELSE score2
    ELSE score2

RawScore2(price, vwap, macro_trend, mom2) ==
    SimulationBoost2(TrendFactor2(price, vwap) + MacroFactor2(macro_trend)
                     + StrengthFactor2(calculate_weighted_strength) + mom2)

\* score_buffer.append(score); if len > confirmation_count: pop(0)
PushScore(buf, score2) ==
    LET b == Append(buf, score2)
    IN  IF Len(b) > MinConfirmation THEN Tail(b) ELSE b

\* if len(self.score_buffer) < self.confirmation_count: return None
BufferNeverChecked(buf) == FALSE
BufferNotFull(buf) == Len(buf) < MinConfirmation

\* if time_since_last_signal < min_hold_time and last_signal_time > 0: return None
CoolingDownNever(timestamp) == FALSE
CoolingDown(timestamp) ==
    timestamp - last_signal_time < MinHoldTime /\ last_signal_time > 0

Outcome(sig, pos, lst) == [signal |-> sig, position |-> pos, last_signal_time |-> lst]
NoSignal == Outcome("NONE", position, last_signal_time)

\* branch  self.position is None
StraddleFirst(sum2, n, mom2, timestamp) ==
    IF ENABLE_STRADDLES /\ Abs(sum2 - mom2 * n) < 2 * n /\ Abs(mom2) >= 3
    THEN Outcome("BUY_STRADDLE", "STRADDLE", timestamp)
    ELSE IF sum2 >= threshold * n THEN Outcome("BUY_CE", "CE", timestamp)
    ELSE IF sum2 <= -(threshold * n) THEN Outcome("BUY_PE", "PE", timestamp)
    ELSE NoSignal
StraddleAlways(sum2, n, mom2, timestamp) ==
    IF sum2 >= threshold * n THEN Outcome("BUY_CE", "CE", timestamp)
    ELSE IF sum2 <= -(threshold * n) THEN Outcome("BUY_PE", "PE", timestamp)
    ELSE IF Abs(sum2 - mom2 * n) < 2 * n /\ Abs(mom2) >= 3
         THEN Outcome("BUY_STRADDLE", "STRADDLE", timestamp)
    ELSE NoSignal
EnterFromNone(sum2, n, mom2, timestamp) ==
    IF sum2 >= threshold * n THEN Outcome("BUY_CE", "CE", timestamp)
    ELSE IF sum2 <= -(threshold * n) THEN Outcome("BUY_PE", "PE", timestamp)
    ELSE IF ENABLE_STRADDLES /\ Abs(sum2 - mom2 * n) < 2 * n /\ Abs(mom2) >= 3
         THEN Outcome("BUY_STRADDLE", "STRADDLE", timestamp)
    ELSE NoSignal

\* branch  self.position == "CE"
ExitFromCEKeepsStance(sum2, n, timestamp) ==
    IF sum2 < n THEN Outcome("EXIT", position, timestamp) ELSE NoSignal
ExitFromCE(sum2, n, timestamp) ==
    IF sum2 < n THEN Outcome("EXIT", "NONE", timestamp) ELSE NoSignal

\* branch  self.position == "PE"
ExitFromPE(sum2, n, timestamp) ==
    IF sum2 > -n THEN Outcome("EXIT", "NONE", timestamp) ELSE NoSignal

\* the straddle exit with "and" in place of "or"
ExitFromStraddleBoth(sum2, n, mom2, timestamp) ==
    IF Abs(mom2) < 1 /\ Abs(sum2) > threshold * n
    THEN Outcome("EXIT", "NONE", timestamp) ELSE NoSignal

\* branch  self.position == "STRADDLE"
ExitFromStraddle(sum2, n, mom2, timestamp) ==
    IF Abs(mom2) < 1 \/ Abs(sum2) > threshold * n
    THEN Outcome("EXIT", "NONE", timestamp) ELSE NoSignal

\* 5. Signal Generation Logic (after the cool-down check)
ReEnterWhileCE(buf, mom2, timestamp) ==
    LET sum2 == SumSeq(buf)
        n == Len(buf)
    IN  IF position = "NONE" \/ position = "CE" THEN EnterFromNone(sum2, n, mom2, timestamp)
        ELSE IF position = "PE" THEN ExitFromPE(sum2, n, timestamp)
        ELSE ExitFromStraddle(sum2, n, mom2, timestamp)
Transition(buf, mom2, timestamp) ==
    LET sum2 == SumSeq(buf)
        n == Len(buf)
    IN  IF position = "NONE" THEN EnterFromNone(sum2, n, mom2, timestamp)
        ELSE IF position = "CE" THEN ExitFromCE(sum2, n, timestamp)
        ELSE IF position = "PE" THEN ExitFromPE(sum2, n, timestamp)
        ELSE ExitFromStraddle(sum2, n, mom2, timestamp)

\* Strategy.on_tick(price, timestamp, vwap, macro_trend)
on_tick(price, timestamp, vwap, macro_trend) ==
    LET h    == NewHistory(price, timestamp)
        mom2 == Momentum2(h, price, timestamp)
        buf  == PushScore(score_buffer, RawScore2(price, vwap, macro_trend, mom2))
        out  == IF BufferNotFull(buf) \/ CoolingDown(timestamp)
                THEN NoSignal
                ELSE Transition(buf, mom2, timestamp)
    IN  /\ price_history' = h
        /\ score_buffer' = buf
        /\ position' = out.position
        /\ last_signal_time' = out.last_signal_time
        /\ ret_signal' = out.signal
        /\ emitted' = IF out.signal # "NONE"
                      THEN Append(emitted, <<out.signal, timestamp>>)
                      ELSE emitted

(***************************************************************************)
(* PositionManager                                                         *)
(***************************************************************************)
TSL_PROFIT_HURDLE == 5              \* percent
TSL_TRAIL_PERCENT == 5              \* percent

Unset == <<0, 0>>                   \* a dict key that has not been written yet

\* self.positions[pos_key] = {"net_qty": 0, "avg_price": 0.0, ...}
NewPosition ==
    [net_qty |-> 0, avg_price |-> RZero, realized_pnl |-> RZero,
     unrealized_pnl |-> RZero, tsl_active |-> FALSE, hwm |-> Unset,
     tsl_trigger |-> Unset, tsl_breached |-> FALSE]

\* fill_qty = quantity if side == 'BUY' else -quantity
SignedQty(quantity, side) == IF side = "BUY" THEN quantity ELSE -quantity

\* (net_qty > 0 and fill_qty > 0) or (net_qty < 0 and fill_qty < 0)
SameDirection(net_qty, fill_qty) ==
    (net_qty > 0 /\ fill_qty > 0) \/ (net_qty < 0 /\ fill_qty < 0)

\* total_val = net*avg + fill_qty*price ; avg = total_val / (net + fill_qty)
BlendAvgUnweighted(net_qty, avg_price, fill_qty, price) ==
    RDiv(RAdd(avg_price, price), RInt(2))
BlendAvg(net_qty, avg_price, fill_qty, price) ==
    RDiv(RAdd(RMul(RInt(net_qty), avg_price), RMul(RInt(fill_qty), price)),
         RInt(net_qty + fill_qty))

\* closing_qty = abs(fill_qty)
ClosingQty(net_qty, fill_qty) == Abs(fill_qty)

\* profit = (price - avg) * closing_qty if net > 0 else (avg - price) * closing_qty
Profit(pos, fill_qty, price) ==
    IF pos.net_qty > 0
    THEN RMul(RSub(price, pos.avg_price), RInt(ClosingQty(pos.net_qty, fill_qty)))
    ELSE RMul(RSub(pos.avg_price, price), RInt(ClosingQty(pos.net_qty, fill_qty)))

\* if pos["net_qty"] == 0: pos["avg_price"] = 0.0
AvgAfterCloseKept(net_after, avg_price) == avg_price
AvgAfterClose(net_after, avg_price) == IF net_after = 0 THEN RZero ELSE avg_price

\* the three branches of on_fill applied to one position record
FillPosition(pos, fill_qty, price) ==
    IF pos.net_qty = 0
    THEN [pos EXCEPT !.avg_price = price, !.net_qty = fill_qty]
    ELSE IF SameDirection(pos.net_qty, fill_qty)
    THEN [pos EXCEPT !.net_qty = pos.net_qty + fill_qty,
                     !.avg_price = BlendAvg(pos.net_qty, pos.avg_price, fill_qty, price)]
    ELSE [pos EXCEPT !.realized_pnl = RAdd(pos.realized_pnl, Profit(pos, fill_qty, price)),
                     !.net_qty = pos.net_qty + fill_qty,
                     !.avg_price = AvgAfterClose(pos.net_qty + fill_qty, pos.avg_price)]

\* self.realized_pnl += profit   (closing branch only)
ManagerRealizedUnchanged(pos, fill_qty, price) == realized_pnl
ManagerRealized(pos, fill_qty, price) ==
    IF pos.net_qty # 0 /\ ~SameDirection(pos.net_qty, fill_qty)
    THEN RAdd(realized_pnl, Profit(pos, fill_qty, price))
    ELSE realized_pnl

\* a row written without the realized_pnl column
DbRowStale(pos) == [net_qty |-> pos.net_qty, avg_price |-> pos.avg_price,
                    realized_pnl |-> RZero]

\* db.save_position(symbol, pos, product): the persisted columns
DbRow(pos) == [net_qty |-> pos.net_qty, avg_price |-> pos.avg_price,
               realized_pnl |-> pos.realized_pnl]

NoOp == [op |-> "init", key |-> <<"", "">>, fill_qty |-> 0, price |-> RZero,
         pre |-> NewPosition, raised |-> FALSE, ret |-> RZero]

\* PositionManager.on_fill(symbol, quantity, price, side, product)
on_fill(symbol, quantity, price, side, product) ==
    LET pos_key  == <<symbol, product>>
        isNew    == pos_key \notin DOMAIN positions
        pos      == IF isNew THEN NewPosition ELSE positions[pos_key]
        fill_qty == SignedQty(quantity, side)
        newPos   == FillPosition(pos, fill_qty, price)
        newReal  == ManagerRealized(pos, fill_qty, price)
    IN  /\ positions' = Put(positions, pos_key, newPos)
        /\ pos_order' = IF isNew THEN Append(pos_order, pos_key) ELSE pos_order
        /\ realized_pnl' = newReal
        /\ db_positions' = Put(db_positions, pos_key, DbRow(newPos))
        /\ db_realized_pnl' = newReal
        /\ last_op' = [NoOp EXCEPT !.op = "on_fill", !.key = pos_key,
                                   !.fill_qty = fill_qty, !.price = price, !.pre = pos]
        /\ fill_log' = Put(fill_log, pos_key,
                           IF pos.net_qty = 0 THEN << <<fill_qty, price>> >>
                           ELSE Append(fill_log[pos_key], <<fill_qty, price>>))

\* (row['symbol'], row['product'] or 'I')
LoadKey(k) == <<k[1], IF k[2] = "" THEN "I" ELSE k[2]>>

\* the dict get_positions builds for one row: four keys, unrealized_pnl 0.0,
\* no trailing-stop key
LoadedPosition(row) ==
    [NewPosition EXCEPT !.net_qty = row.net_qty, !.avg_price = row.avg_price,
                        !.realized_pnl = row.realized_pnl]

\* TradingDatabase.get_positions()
get_positions ==
    [k \in {LoadKey(x) : x \in DOMAIN db_positions} |->
        LoadedPosition(db_positions[CHOOSE x \in DOMAIN db_positions : LoadKey(x) = k])]

\* the orders in which SELECT * FROM positions may return the rows
RowOrders(S) ==
    {q \in [1..Cardinality(S) -> S] : \A i, j \in DOMAIN q : i # j => q[i] # q[j]}

\* PositionManager.__init__ / _load_state() of a manager constructed over
\* the same database; float(str(x)) and SQLite REAL return the stored double
_load_state ==
    /\ positions' = get_positions
    /\ pos_order' \in RowOrders(DOMAIN get_positions)
    /\ realized_pnl' = db_realized_pnl
    /\ last_op' = [NoOp EXCEPT !.op = "_load_state"]
    /\ UNCHANGED <<db_positions, db_realized_pnl, fill_log>>

\* _manage_tsl(pos, ltp); the caller guarantees net_qty # 0.  The division by
\* avg_price raises ZeroDivisionError when avg_price == 0.0 (see TslRaises).
TslRaises(pos) == pos.net_qty # 0 /\ RIsZero(pos.avg_price)

TslSide(pos) == IF pos.net_qty > 0 THEN 1 ELSE -1

ProfitPct(pos, ltp) ==
    RMul(RDiv(RMul(RInt(TslSide(pos)), RSub(ltp, pos.avg_price)), pos.avg_price),
         RInt(100))

\* ltp * (1 - (trail/100) * side)
TrailTrigger(ltp, side) ==
    RMul(ltp, RSub(RInt(1), RMul(RDiv(RInt(TSL_TRAIL_PERCENT), RInt(100)), RInt(side))))

_manage_tsl(pos, ltp) ==
    IF pos.net_qty = 0 THEN pos
    ELSE IF ~pos.tsl_active
    THEN IF RLe(RInt(TSL_PROFIT_HURDLE), ProfitPct(pos, ltp))
         THEN [pos EXCEPT !.tsl_active = TRUE, !.hwm = ltp,
                          !.tsl_trigger = TrailTrigger(ltp, TslSide(pos))]
         ELSE pos
    ELSE IF TslSide(pos) = 1
    THEN IF RLt(pos.hwm, ltp)
         THEN [pos EXCEPT !.hwm = ltp, !.tsl_trigger = TrailTrigger(ltp, 1)]
         ELSE IF RLt(ltp, pos.tsl_trigger)
         THEN [pos EXCEPT !.tsl_breached = TRUE]
         ELSE pos
    ELSE IF RLt(ltp, pos.hwm)
         THEN [pos EXCEPT !.hwm = ltp, !.tsl_trigger = TrailTrigger(ltp, -1)]
         ELSE IF RLt(pos.tsl_trigger, ltp)
         THEN [pos EXCEPT !.tsl_breached = TRUE]
         ELSE pos

\* the price of whatever instrument the snapshot holds
LtpOfAnyInstrument(market_prices, symbol, pos) ==
    IF DOMAIN market_prices # {}
    THEN market_prices[CHOOSE s \in DOMAIN market_prices : TRUE]
    ELSE pos.avg_price

\* ltp = p_data.get('ltp', avg_price) if p_data else avg_price
Ltp(market_prices, symbol, pos) ==
    IF symbol \in DOMAIN market_prices THEN market_prices[symbol] ELSE pos.avg_price

\* unrealized P&L of one open position
Unrealized(pos, ltp) ==
    IF pos.net_qty > 0
    THEN RMul(RSub(ltp, pos.avg_price), RInt(pos.net_qty))
    ELSE RMul(RSub(pos.avg_price, ltp), RInt(Abs(pos.net_qty)))

\* body of the update_pnl loop for one position
UpdateOne(pos, ltp) ==
    IF pos.net_qty = 0 THEN [pos EXCEPT !.unrealized_pnl = RZero]
    ELSE LET p1 == [pos EXCEPT !.unrealized_pnl = Unrealized(pos, ltp)]
         IN  IF TslRaises(p1) THEN p1 ELSE _manage_tsl(p1, ltp)

\* the loop over self.positions.items() in insertion order; stops at the
\* first position whose trailing-stop step raises
RECURSIVE PnlLoop(_, _, _, _)
PnlLoop(ps, i, total, market_prices) ==
    IF i > Len(pos_order) THEN [positions |-> ps, total |-> total, raised |-> FALSE]
    ELSE LET k   == pos_order[i]
             pos == ps[k]
             ltp == Ltp(market_prices, k[1], pos)
             np  == UpdateOne(pos, ltp)
             ps2 == [ps EXCEPT ![k] = np]
         IN  IF TslRaises(pos)
             THEN [positions |-> ps2, total |-> total, raised |-> TRUE]
             ELSE PnlLoop(ps2, i + 1, RAdd(total, np.unrealized_pnl), market_prices)

\* PositionManager.update_pnl(market_prices)
update_pnl(market_prices) ==
    LET r == PnlLoop(positions, 1, RZero, market_prices)
    IN  /\ positions' = r.positions
        /\ last_op' = [NoOp EXCEPT !.op = "update_pnl", !.raised = r.raised,
                                   !.ret = r.total]
        /\ UNCHANGED <<pos_order, realized_pnl, db_positions, db_realized_pnl, fill_log>>

\* PositionManager.check_tsl_breach(symbol, product)
check_tsl_breach(symbol, product) ==
    /\ <<symbol, product>> \in DOMAIN positions
    /\ positions[<<symbol, product>>].tsl_breached

(***************************************************************************)
(* CandleResampler                                                         *)
(***************************************************************************)
\* self.current_candle is None
NoCandle == [timestamp |-> -1, open |-> 0, high |-> 0, low |-> 0, close |-> 0,
             volume |-> 0, complete |-> FALSE]

\* CandleResampler.__init__
NewResampler == [current_candle |-> NoCandle, candles |-> <<>>]

\* minute_floor = (timestamp.minute // interval) * interval
\* bucket_start = timestamp.replace(minute=minute_floor, second=0, microsecond=0)
\* (timestamps are wall-clock seconds of the day)
BucketStart(timestamp, interval) ==
    LET hour   == timestamp - (timestamp % 3600)
        minute == (timestamp % 3600) \div 60
    IN  hour + ((minute \div interval) * interval) * 60

\* Candle(timestamp=bucket_start, open=price, high=price, low=price, close=price, volume=volume)
NewCandle(bucket_start, price, volume) ==
    [timestamp |-> bucket_start, open |-> price, high |-> price, low |-> price,
     close |-> price, volume |-> volume, complete |-> FALSE]

\* self.current_candle and bucket_start > self.current_candle.timestamp
RollsOverOrSame(cur, bucket_start) == cur # NoCandle /\ bucket_start >= cur.timestamp
RollsOver(cur, bucket_start) == cur # NoCandle /\ bucket_start > cur.timestamp

\* self.current_candle.high = max(self.current_candle.high, price)
BarHighLatest(cur, price) == price
BarHigh(cur, price) == Max(cur.high, price)

\* the else branch: update the current candle in place
UpdateCandle(cur, price, volume) ==
    [cur EXCEPT !.high = BarHigh(cur, price), !.low = Min(cur.low, price),
                !.close = price, !.volume = cur.volume + volume]

\* CandleResampler.process_tick(price, volume, timestamp): the new resampler
\* state and the returned candle (NoCandle for None)
process_tick(r, interval, price, volume, timestamp) ==
    LET bucket_start == BucketStart(timestamp, interval)
        cur == r.current_candle
    IN  IF RollsOver(cur, bucket_start)
        THEN LET done == [cur EXCEPT !.complete = TRUE]
             IN  [resampler |-> [current_candle |-> NewCandle(bucket_start, price, volume),
                                 candles |-> Append(r.candles, done)],
                  ret |-> done]
        ELSE IF cur = NoCandle
        THEN [resampler |-> [r EXCEPT !.current_candle =
                                          NewCandle(bucket_start, price, volume)],
              ret |-> NoCandle]
        ELSE [resampler |-> [r EXCEPT !.current_candle = UpdateCandle(cur, price, volume)],
              ret |-> NoCandle]

\* what a caller of process_tick on resampler_3m sees, and the prices that
\* were processed while each bar was the current bar
NoCandleObs == [ret |-> NoCandle, bucket |-> -1, pre_bucket |-> -1, pre_len |-> 0,
                seen |-> <<>>, done_seen |-> <<>>, calls |-> 0]

ObserveCandle(r, out, interval, price, timestamp) ==
    [ret        |-> out.ret,
     bucket     |-> BucketStart(timestamp, interval),
     pre_bucket |-> r.current_candle.timestamp,
     pre_len    |-> Len(r.candles),
     seen       |-> IF out.ret # NoCandle THEN <<price>> ELSE Append(cand_obs.seen, price),
     done_seen  |-> IF out.ret # NoCandle THEN Append(cand_obs.done_seen, cand_obs.seen)
                    ELSE cand_obs.done_seen,
     calls      |-> cand_obs.calls + 1]

(***************************************************************************)
(* TickEngine                                                              *)
(***************************************************************************)
\* self.tracked_stocks: the index and the basket members (lines 141, 181)
tracked_stocks == {"BANKNIFTY"} \cup Basket

\* core/instruments.py: STRIKE_STEPS and get_step_size
STRIKE_STEPS == [HDFCBANK |-> 10, ICICIBANK |-> 10, BANKNIFTY |-> 100]
get_step_size(symbol) ==
    IF symbol \in DOMAIN STRIKE_STEPS THEN STRIKE_STEPS[symbol] ELSE 5

\* Python round(n / d) for d > 0: nearest integer, ties to the even one
RoundHalfEven(n, d) ==
    LET q == n \div d
        r == n % d
    IN  IF 2 * r < d THEN q
        ELSE IF 2 * r > d THEN q + 1
        ELSE IF q % 2 = 0 THEN q ELSE q + 1

\* InstrumentManager.calculate_atm_strike
calculate_atm_strike(symbol, ltp) ==
    RoundHalfEven(ltp, get_step_size(symbol)) * get_step_size(symbol)

\* self.vwap_map[symbol] = {'cum_vol': 0, 'cum_pv': 0}; a missing 'last_vol'
\* is read as 0 by .get('last_vol', 0)
NewVwap == [cum_vol |-> 0, cum_pv |-> 0, last_vol |-> 0]

VwapOf(vm, symbol) == IF symbol \in DOMAIN vm THEN vm[symbol] ELSE NewVwap

\* if current_vol > 0: ... if current_vol > last_vol:
VolumeAdvancesOrRewinds(st, current_vol) == current_vol > 0 /\ current_vol # st.last_vol
VolumeAdvances(st, current_vol) == current_vol > 0 /\ current_vol > st.last_vol

\* vol_delta = current_vol - last_vol
VolDeltaCumulative(st, current_vol) == current_vol
VolDelta(st, current_vol) == current_vol - st.last_vol

\* lines 256-263: the VWAP state of one symbol after a tick
UpdateVwap(st, price, current_vol) ==
    IF VolumeAdvances(st, current_vol)
    THEN [cum_vol  |-> st.cum_vol + VolDelta(st, current_vol),
          cum_pv   |-> st.cum_pv + price * VolDelta(st, current_vol),
          last_vol |-> current_vol]
    ELSE st

\* lines 278 and 290 divide cum_pv by cum_vol: ZeroDivisionError when it is 0
VwapRaises(st, current_vol) == current_vol > 0 /\ st.cum_vol = 0

\* lines 275-285; the ticks carry neither 'pc' nor 'c' and prev_close_map is
\* empty, so the benchmark branch leaves NEUTRAL
Trend(st, price, current_vol) ==
    IF current_vol > 0
    THEN IF price * st.cum_vol > st.cum_pv THEN "BULLISH"
         ELSE IF price * st.cum_vol < st.cum_pv THEN "BEARISH" ELSE "NEUTRAL"
    ELSE "NEUTRAL"

\* lines 288-290: vwap for the payload and for the strategy
PayloadVwap(st, price, current_vol) ==
    IF current_vol > 0 \/ st.cum_vol > 0 THEN RNorm(st.cum_pv, st.cum_vol)
    ELSE RInt(price)

\* lines 314-328: the fields of the payload that depend on the tick
Payload(st, price, volume) ==
    [ltp |-> RInt(price), volume |-> volume,
     vwap |-> PayloadVwap(st, price, volume), trend |-> Trend(st, price, volume)]

\* _check_atm_subscription(symbol, ltp)
_check_atm_subscription(atms, symbol, ltp) ==
    Put(atms, symbol, calculate_atm_strike(symbol, ltp))

(***************************************************************************)
(* TickEngine: order placement                                             *)
(***************************************************************************)
offline == FALSE                    \* the engine logged in (initialize)
HEDGE_OTM_STEP == 1000              \* config.HEDGE_OTM_STEP
MAX_DAILY_LOSS == 100               \* config.MAX_DAILY_LOSS
AUTO_EXIT_TIME == 1200              \* config.AUTO_EXIT_TIME, wall-clock seconds
lot_size == 15                      \* instrument_mgr.get_lot_size("BANKNIFTY")
QUANTITY == 1                       \* config.QUANTITY
ExpiryStr == "26NOV26"              \* expiry_date.strftime("%d%b%y").upper()

NoPaper == [option_type |-> "NONE", entry_price |-> 0, quantity |-> 0]

\* the state a handler threads through its calls: the positions, the order
\* log, the paper position, the auto-trading flag, whether a hard stop has
\* fired since auto-trading was last enabled, whether an exception is
\* propagating, the broker's answers to the coming place_order calls, and the
\* number of EXIT sweeps started
Ctx(replies) ==
    [positions |-> positions, order_log |-> order_log, paper |-> paper_position,
     auto |-> auto_trading_enabled, stop |-> feed_obs.stop, raised |-> FALSE,
     replies |-> replies, sweeps |-> 0]

NextReply(ctx) == IF ctx.replies = <<>> THEN "ok" ELSE Head(ctx.replies)
PopReply(ctx) == [ctx EXCEPT !.replies = IF @ = <<>> THEN @ ELSE Tail(@)]

\* one entry of the order log
Order(ctx, symbol, side, qty, product, origin, tag, live, accepted) ==
    [symbol |-> symbol, side |-> side, qty |-> qty, product |-> product,
     origin |-> origin, tag |-> tag, live |-> live, accepted |-> accepted,
     fills |-> 0, auto |-> ctx.auto, stop |-> ctx.stop]

\* "CE" in signal_type / "BANKNIFTY" in symbol
Contains(str, sub) ==
    \E i \in 1..(Len(str) - Len(sub) + 1) : SubSeq(str, i, i + Len(sub) - 1) = sub

\* TickEngine._get_option_symbol(option_type, strike)
_get_option_symbol(option_type, strike) ==
    "BANKNIFTY" \o ExpiryStr \o option_type \o ToString(strike)

\* PaperTradingEngine.enter_position
enter_position(signal_type, entry_price, quantity) ==
    [option_type |-> IF Contains(signal_type, "CE") THEN "CE" ELSE "PE",
     entry_price |-> entry_price, quantity |-> quantity]

\* TickEngine._place_order_internal(symbol, "B", signal_price, tag, signal_type)
_place_order_internal(ctx, symbol, signal_price, tag, signal_type) ==
    LET qty == QUANTITY * lot_size
    IN  IF PAPER_TRADING_MODE \/ offline
        THEN [ctx EXCEPT !.paper = enter_position(signal_type, signal_price, qty),
                         !.order_log = Append(@, Order(ctx, symbol, "BUY", qty, "M",
                                                       "ENTRY", tag, FALSE, TRUE))]
        ELSE [PopReply(ctx) EXCEPT
                 !.order_log = Append(@, Order(ctx, symbol, "BUY", qty, "M", "ENTRY",
                                               tag, TRUE, NextReply(ctx) = "ok"))]

\* the body of the loop of _handle_exit_signal for one open index position.
\* Paper mode: exit_position returns None when the paper engine holds no
\* position and formatting None with :.2f raises.  Live mode: place_order is
\* not inside a try block, so an exception of the broker call propagates.
CloseOne(ctx, k, pos, signal_price) ==
    LET side == IF pos.net_qty > 0 THEN "SELL" ELSE "BUY"
        qty  == Abs(pos.net_qty)
    IN  IF PAPER_TRADING_MODE \/ offline
        THEN IF ctx.paper = NoPaper
             THEN [ctx EXCEPT !.raised = TRUE]
             ELSE [ctx EXCEPT !.paper = NoPaper,
                              !.order_log = Append(@, Order(ctx, k[1], side, qty, k[2],
                                                            "EXIT", "EXIT", FALSE, TRUE))]
        ELSE IF NextReply(ctx) = "raise"
             THEN [PopReply(ctx) EXCEPT !.raised = TRUE]
             ELSE [PopReply(ctx) EXCEPT
                      !.order_log = Append(@, Order(ctx, k[1], side, qty, k[2], "EXIT",
                                                    "EXIT", TRUE, NextReply(ctx) = "ok"))]

\* TickEngine._handle_exit_signal: positions in dict insertion order
RECURSIVE _handle_exit_signal(_, _, _)
_handle_exit_signal(ctx, i, signal_price) ==
    IF i > Len(pos_order) \/ ctx.raised THEN ctx
    ELSE LET k   == pos_order[i]
             pos == ctx.positions[k]
         IN  IF Contains(k[1], "BANKNIFTY") /\ pos.net_qty # 0
             THEN _handle_exit_signal(CloseOne(ctx, k, pos, signal_price), i + 1,
                                      signal_price)
             ELSE _handle_exit_signal(ctx, i + 1, signal_price)

\* the offset with abs() left out
StrikeOffsetSigned(strength) ==
    IF RLt(RInt(8), strength) THEN 200 ELSE IF RLt(<<13, 2>>, strength) THEN 100 ELSE 0

\* offset = 200 if strength > 8.0 else (100 if strength > 6.5 else 0)
StrikeOffset(strength) ==
    LET a == IF RLt(strength, RZero) THEN RSub(RZero, strength) ELSE strength
    IN  IF RLt(RInt(8), a) THEN 200 ELSE IF RLt(<<13, 2>>, a) THEN 100 ELSE 0

\* the orders list built by execute_signal for an entry signal
Legs(signal_type, signal_price) ==
    LET base_atm == RoundHalfEven(signal_price, 100) * 100
        offset   == StrikeOffset(calculate_weighted_strength)
        main(t, strike) == [type |-> t, strike |-> strike, tag |-> "MAIN"]
        wing(t, strike) == [type |-> t, strike |-> strike, tag |-> "WING"]
    IN  IF signal_type = "BUY_STRADDLE"
        THEN <<main("C", base_atm), main("P", base_atm)>>
        ELSE IF signal_type \in {"BUY_CE", "BUY_PE"}
        THEN IF Contains(signal_type, "CE")
             THEN <<main("C", base_atm + offset)>>
                  \o (IF HEDGED_ENTRIES THEN <<wing("P", base_atm - HEDGE_OTM_STEP)>>
                      ELSE <<>>)
             ELSE <<main("P", base_atm - offset)>>
                  \o (IF HEDGED_ENTRIES THEN <<wing("C", base_atm + HEDGE_OTM_STEP)>>
                      ELSE <<>>)
        ELSE <<>>

\* for order in orders: self._place_order_internal(...)
RECURSIVE PlaceLegs(_, _, _, _)
PlaceLegs(ctx, legs, signal_price, signal_type) ==
    IF legs = <<>> THEN ctx
    ELSE PlaceLegs(_place_order_internal(ctx,
                       _get_option_symbol(Head(legs).type, Head(legs).strike),
                       signal_price, Head(legs).tag, signal_type),
                   Tail(legs), signal_price, signal_type)

\* TickEngine.execute_signal(signal)
execute_signal(ctx, signal_type, signal_price) ==
    IF ctx.raised THEN ctx
    ELSE IF signal_type = "EXIT"
    THEN _handle_exit_signal([ctx EXCEPT !.sweeps = @ + 1], 1, signal_price)
    ELSE PlaceLegs(ctx, Legs(signal_type, signal_price), signal_price, signal_type)

(***************************************************************************)
(* TickEngine: hard stops, trailing-stop polling and tick processing       *)
(***************************************************************************)
\* market_prices.get(symbol)['ltp'] as read by update_pnl
LtpMap(prices) == [sym \in DOMAIN prices |-> prices[sym].ltp]

\* now_time >= config.AUTO_EXIT_TIME, both formatted as "%H:%M"
TimeReached(now_time) == now_time \div 60 >= AUTO_EXIT_TIME \div 60

\* the body of either hard stop: EXIT sweep, then disable auto-trading
\* self.auto_trading_enabled = False, reached only when the sweep returned
DisableAuto(c) == IF c.raised THEN c ELSE [c EXCEPT !.auto = FALSE, !.stop = TRUE]

HardStop(ctx) == DisableAuto(execute_signal(ctx, "EXIT", 0))

\* TickEngine._check_safety_limits()
\* if total_pnl <= -config.MAX_DAILY_LOSS: ...
LossStop(c1, total_unrealized) ==
    IF ~c1.raised /\ RLe(RAdd(realized_pnl, total_unrealized), RInt(-MAX_DAILY_LOSS))
    THEN HardStop(c1) ELSE c1

\* if now_time >= config.AUTO_EXIT_TIME: ...  (runs also after the loss stop)
TimeStop(c2, now_time) ==
    IF ~c2.raised /\ TimeReached(now_time) THEN HardStop(c2) ELSE c2

\* the two checks on r, the outcome of update_pnl(market_data.latest_prices)
SafetyChecks(ctx, r, now_time) ==
    TimeStop(LossStop([ctx EXCEPT !.positions = r.positions, !.raised = r.raised],
                      r.total),
             now_time)

\* TickEngine._check_safety_limits()
_check_safety_limits(ctx, prices, now_time) ==
    IF ~ctx.auto \/ ctx.raised THEN ctx
    ELSE SafetyChecks(ctx, PnlLoop(ctx.positions, 1, RZero, LtpMap(prices)), now_time)

\* lines 374-378: an EXIT signal for every open position whose stop is breached
RECURSIVE TslPoll(_, _, _)
TslPoll(ctx, i, price) ==
    IF i > Len(pos_order) \/ ctx.raised THEN ctx
    ELSE LET pos == ctx.positions[pos_order[i]]
         IN  TslPoll(IF pos.net_qty # 0 /\ pos.tsl_breached
                     THEN execute_signal(ctx, "EXIT", price) ELSE ctx,
                     i + 1, price)

\* lines 371-398: automation, then execution of the strategy's signal
ExecuteStrategySignal(c1, signal, price) ==
    IF signal # "NONE" THEN execute_signal(c1, signal, price) ELSE c1

Automation(ctx, signal, price, prices, now_time) ==
    ExecuteStrategySignal(
        IF ctx.auto THEN _check_safety_limits(TslPoll(ctx, 1, price), prices, now_time)
        ELSE ctx,
        signal, price)

\* the ticks that reached the VWAP step, per symbol: Seq of <<price, volume>>
LogTick(vlog, symbol, price, volume) ==
    Put(vlog, symbol,
        Append(IF symbol \in DOMAIN vlog THEN vlog[symbol] ELSE <<>>, <<price, volume>>))

NoFeedObs == [op |-> "init", symbol |-> "", price |-> 0, volume |-> 0,
              raised |-> FALSE, stop |-> FALSE, vlog |-> EmptyMap, order |-> 0,
              signal |-> "", sweeps |-> 0]

\* if not symbol: return  /  if price == 0: return
Dropped(symbol, price) == symbol = "" \/ price = 0

\* the engine state on_tick leaves behind, c being the outcome of the automation
TickOutcome(c, symbol, price, volume, ok) ==
    /\ positions' = c.positions
    /\ order_log' = c.order_log
    /\ paper_position' = c.paper
    /\ auto_trading_enabled' = c.auto
    /\ feed_obs' = [NoFeedObs EXCEPT
                      !.op = "on_tick", !.symbol = symbol, !.price = price,
                      !.volume = volume, !.stop = c.stop, !.sweeps = c.sweeps,
                      !.raised = c.raised \/ (~Dropped(symbol, price) /\ ~ok),
                      !.vlog = IF Dropped(symbol, price) THEN feed_obs.vlog
                               ELSE LogTick(feed_obs.vlog, symbol, price, volume)]

\* TickEngine.on_tick(tick) at wall-clock time timestamp; symbol is the
\* instrument the token maps to ("" when unmapped), has_open is 'o' in tick,
\* macro_trend is macro_data["BANKNIFTY"]['trend'].  The dashboard-only
\* fields of the payload (change, ai_signal) are left out.
TickEngine_on_tick(symbol, price, volume, has_open, timestamp, macro_trend, replies) ==
    LET st    == UpdateVwap(VwapOf(vwap_map, symbol), price, volume)
        ok    == ~Dropped(symbol, price) /\ ~VwapRaises(st, volume)
        vwap  == PayloadVwap(st, price, volume)
        index == ok /\ symbol = "BANKNIFTY"
        prices == IF ok THEN Put(latest_prices, symbol, Payload(st, price, volume))
                  ELSE latest_prices
        c3    == process_tick(resampler_3m, 3, price, volume, timestamp)
        c5    == process_tick(resampler_5m, 5, price, volume, timestamp)
    IN  /\ now' = timestamp
        /\ vwap_map' = IF Dropped(symbol, price) THEN vwap_map
                       ELSE Put(vwap_map, symbol, st)
        /\ latest_prices' = prices
        /\ tracked_atms' = IF ok /\ symbol \in tracked_stocks
                           THEN _check_atm_subscription(tracked_atms, symbol, price)
                           ELSE tracked_atms
        /\ IF ok /\ symbol # "BANKNIFTY" /\ symbol \in tracked_stocks
           THEN update_data(symbol, price, volume, has_open)
           ELSE UNCHANGED <<open_prices, current_prices, current_volumes, initial_volumes>>
        /\ resampler_3m' = IF index THEN c3.resampler ELSE resampler_3m
        /\ resampler_5m' = IF index THEN c5.resampler ELSE resampler_5m
        /\ cand_obs' = IF index THEN ObserveCandle(resampler_3m, c3, 3, price, timestamp)
                       ELSE cand_obs
        /\ IF index
           THEN /\ on_tick(price, timestamp, vwap, macro_trend)
                /\ nTicks' = nTicks + 1
           ELSE UNCHANGED <<position, last_signal_time, score_buffer, price_history,
                            ret_signal, nTicks, emitted>>
        /\ TickOutcome(IF index
                       THEN Automation(Ctx(replies), ret_signal', price, prices, timestamp)
                       ELSE Ctx(replies),
                       symbol, price, volume, ok)
        /\ nFeed' = nFeed + 1
        /\ UNCHANGED <<SIMULATION_MODE, ENABLE_STRADDLES, PAPER_TRADING_MODE, pos_order,
                       realized_pnl, db_positions, db_realized_pnl, last_op, fill_log,
                       nOps, threadVars, setupVars>>

(***************************************************************************)
(* TickEngine._seed_history                                                *)
(***************************************************************************)
\* for candle in history: if v > 0: cum_vol += v; cum_pv += c * v
RECURSIVE SeedTotals(_, _)
SeedTotals(history, acc) ==
    IF history = <<>> THEN acc
    ELSE LET c == Head(history)
         IN  SeedTotals(Tail(history),
                        IF c[3] > 0
                        THEN [cum_vol |-> acc.cum_vol + c[3],
                              cum_pv  |-> acc.cum_pv + c[2] * c[3]]
                        ELSE acc)

\* a seeding that records the baseline only
SeedBaselineOnly(vm, symbol, tot) ==
    IF symbol \in DOMAIN vm THEN vm
    ELSE Put(vm, symbol, [cum_vol |-> 0, cum_pv |-> 0, last_vol |-> tot.cum_vol])

\* lines 513-519: the VWAP state of the symbol after seeding
SeedVwap(vm, symbol, tot) ==
    LET base == IF symbol \in DOMAIN vm THEN vm[symbol]
                ELSE [cum_vol |-> 0, cum_pv |-> 0, last_vol |-> tot.cum_vol]
    IN  Put(vm, symbol,
            IF tot.cum_vol > 0
            THEN [base EXCEPT !.cum_vol = tot.cum_vol, !.cum_pv = tot.cum_pv]
            ELSE base)

\* the body of the loop for one symbol; s holds the VWAP map, the open
\* prices of the calculator and the published prices
SeedSymbol(s, symbol, history) ==
    IF history = <<>> THEN s
    ELSE LET last == history[Len(history)]
         IN  [vm     |-> SeedVwap(s.vm, symbol,
                                  SeedTotals(history, [cum_vol |-> 0, cum_pv |-> 0])),
              opens  |-> IF history[1][1] > 0 /\ symbol \in Basket
                         THEN Put(s.opens, symbol, history[1][1]) ELSE s.opens,
              prices |-> Put(s.prices, symbol,
                             [ltp |-> RInt(last[2]), volume |-> last[3],
                              vwap |-> RInt(last[2]), trend |-> "NEUTRAL"])]

\* the dummy payload published when the index has none
DummyIndexPayload ==
    [ltp |-> RInt(51500), volume |-> 1000000, vwap |-> RInt(51500), trend |-> "NEUTRAL"]

\* TickEngine._seed_history() with the given histories of the index and of
\* HDFCBANK; the other tracked symbols have no token
_seed_history(index_history, stock_history) ==
    LET s0 == [vm |-> vwap_map, opens |-> open_prices, prices |-> latest_prices]
        s1 == SeedSymbol(s0, "BANKNIFTY", index_history)
        s2 == SeedSymbol(s1, "HDFCBANK", stock_history)
    IN  /\ vwap_map' = s2.vm
        /\ open_prices' = s2.opens
        /\ latest_prices' = IF "BANKNIFTY" \in DOMAIN s2.prices THEN s2.prices
                            ELSE Put(s2.prices, "BANKNIFTY", DummyIndexPayload)
        /\ feed_obs' = [feed_obs EXCEPT !.op = "_seed_history"]

(***************************************************************************)
(* TickEngine: manual orders, order updates, API toggle                    *)
(***************************************************************************)
\* fill_price of _simulate_manual_order: price, else the published ltp, else 100.0
SimFillPrice(symbol, price) ==
    LET ltp == IF symbol \in DOMAIN latest_prices THEN latest_prices[symbol].ltp
               ELSE RZero
        p   == IF price > 0 THEN RInt(price) ELSE ltp
    IN  IF RIsZero(p) THEN RInt(100) ELSE p

\* TickEngine._simulate_manual_order: on_fill with the default product 'I'
_simulate_manual_order(symbol, side, qty, price) ==
    on_fill(symbol, qty, SimFillPrice(symbol, price), side, "I")

\* OrderManager.place_order as called by place_manual_order (no price given):
\* "sim" when the simulation bypass fills at the fallback price 1.0, else the
\* broker's answer; an exception is caught and gives None
PlaceOrderOutcome(reply) ==
    IF PAPER_TRADING_MODE \/ SIMULATION_MODE THEN "sim"
    ELSE IF reply = <<>> THEN "ok" ELSE "none"

\* TickEngine.place_manual_order(symbol, side, qty, price, product_type)
place_manual_order(symbol, side, qty, price, product_type, reply) ==
    LET simulated == offline \/ PAPER_TRADING_MODE
        outcome   == PlaceOrderOutcome(reply)
        entry     == Order(Ctx(reply), symbol, side, qty, product_type, "MANUAL",
                           "MANUAL", ~simulated /\ outcome # "sim",
                           simulated \/ outcome # "none")
    IN  /\ IF simulated \/ outcome = "none"
           THEN _simulate_manual_order(symbol, side, qty, price)
           ELSE IF outcome = "sim"
           THEN on_fill(symbol, qty, RInt(1), side, product_type)
           ELSE UNCHANGED <<positions, pos_order, realized_pnl, db_positions,
                            db_realized_pnl, last_op, fill_log>>
        /\ order_log' = Append(order_log,
                               [entry EXCEPT !.fills = IF simulated \/ outcome # "ok"
                                                       THEN 1 ELSE 0])
        /\ feed_obs' = [feed_obs EXCEPT !.op = "place_manual_order", !.symbol = symbol,
                                        !.price = price, !.volume = 0, !.raised = FALSE,
                                        !.order = Len(order_log) + 1]

\* TickEngine.on_order_update(data) for the order with index i of the log:
\* data carries the order's tsym, prd, fillqty and trantype, the given status
\* and, unless avg_prc is 0, the fill price
on_order_update(i, status, avg_prc) ==
    LET o == order_log[i]
        fill_price == IF avg_prc # 0 THEN RInt(avg_prc) ELSE RZero
    IN  /\ IF status = "COMPLETE" /\ o.qty > 0
           THEN /\ on_fill(o.symbol, o.qty, fill_price, o.side, o.product)
                /\ order_log' = [order_log EXCEPT ![i].fills = @ + 1]
           ELSE UNCHANGED <<positions, pos_order, realized_pnl, db_positions,
                            db_realized_pnl, last_op, fill_log, order_log>>
        /\ feed_obs' = [feed_obs EXCEPT !.op = "on_order_update", !.symbol = o.symbol,
                                        !.price = avg_prc, !.volume = 0,
                                        !.raised = FALSE, !.order = i]

\* api/main.py set_auto_trade(enabled)
set_auto_trade(enabled) ==
    /\ auto_trading_enabled' = enabled
    /\ feed_obs' = [feed_obs EXCEPT !.op = "set_auto_trade", !.raised = FALSE,
                                    !.stop = IF enabled THEN FALSE ELSE @]

(***************************************************************************)
(* Actions of the signal-engine specification                              *)
(***************************************************************************)
StrategyTick ==
    /\ nTicks < MaxTicks
    /\ \E price \in TickPrices, dt \in TickDeltas, vwap \in TickVwaps,
          macro_trend \in MacroTrends :
          /\ now' = now + dt
          /\ on_tick(price, now + dt, RInt(vwap), macro_trend)
    /\ nTicks' = nTicks + 1
    /\ UNCHANGED <<open_prices, current_prices, current_volumes, initial_volumes,
                   SIMULATION_MODE, ENABLE_STRADDLES>>
    /\ UNCHANGED <<pmVars, candleVars, engineVars, threadVars, setupVars>>

InitWeightage ==
    /\ open_prices = EmptyMap
    /\ current_prices = EmptyMap
    /\ current_volumes = EmptyMap
    /\ initial_volumes = EmptyMap

InitStrategy ==
    /\ position = "NONE"
    /\ last_signal_time = 0
    /\ score_buffer = <<>>
    /\ price_history = <<>>
    /\ now = 1000
    /\ ret_signal = "NONE"
    /\ nTicks = 0
    /\ emitted = <<>>

InitPM ==
    /\ positions = EmptyMap
    /\ pos_order = <<>>
    /\ realized_pnl = RZero
    /\ db_positions = EmptyMap
    /\ db_realized_pnl = RZero
    /\ last_op = NoOp
    /\ fill_log = EmptyMap
    /\ nOps = 0

\* the configuration flags are set before start-up and stay fixed
InitFlags ==
    /\ SIMULATION_MODE \in BOOLEAN
    /\ ENABLE_STRADDLES \in BOOLEAN

\* the position manager reads neither flag
InitFlagsOff ==
    /\ SIMULATION_MODE = FALSE
    /\ ENABLE_STRADDLES = FALSE

\* TickEngine.__init__: the two resamplers
InitCandles ==
    /\ resampler_3m = NewResampler
    /\ resampler_5m = NewResampler
    /\ cand_obs = NoCandleObs

\* TickEngine.__init__: maps, order tracking
InitEngineState ==
    /\ vwap_map = EmptyMap
    /\ latest_prices = EmptyMap
    /\ tracked_atms = EmptyMap
    /\ order_log = <<>>
    /\ paper_position = NoPaper
    /\ feed_obs = NoFeedObs
    /\ nFeed = 0

\* self.auto_trading_enabled = False; PAPER_TRADING_MODE defaults to true
InitEngineDefaults ==
    /\ auto_trading_enabled = FALSE
    /\ PAPER_TRADING_MODE = TRUE

InitEngine == InitCandles /\ InitEngineState /\ InitEngineDefaults

\* auto_trading_enabled and PAPER_TRADING_MODE as loaded from the database
InitEngineLoaded ==
    /\ auto_trading_enabled \in BOOLEAN
    /\ PAPER_TRADING_MODE \in BOOLEAN

\* no PositionManager call is running
NoFillFrame == [pos_key |-> <<"", "">>, fill_qty |-> 0, price |-> RZero,
                total_val |-> RZero, profit |-> RZero, pre |-> NewPosition]
NoPnlFrame == [i |-> 0, n |-> 0, market_prices |-> [x \in {} |-> 0], pos_key |-> <<"", "">>,
               ltp |-> RZero, total_unrealized |-> RZero, raised |-> FALSE,
               half_updated |-> FALSE]

\* no WeightageCalculator call observed yet
NoCalc == [op |-> "init", ret |-> RZero, calls |-> 0]

\* no Strategy.on_tick arguments observed yet
NoScore == [price |-> 0, vwap |-> RZero, macro_trend |-> ""]

\* WeightageCalculator() with the default index weights; hedged entries on
InitSetup ==
    /\ weights = Weights
    /\ HEDGED_ENTRIES = TRUE
    /\ threshold = MinStrength2
    /\ wc_obs = NoCalc
    /\ score_obs = NoScore

InitThreads ==
    /\ ws_pc = "idle"
    /\ ws_frame = NoFillFrame
    /\ api_pc = "idle"
    /\ api_frame = NoPnlFrame

InitOrders ==
    /\ InitWeightage /\ InitStrategy /\ InitPM /\ InitFlagsOff
    /\ InitCandles /\ InitEngineState /\ InitEngineLoaded /\ InitThreads /\ InitSetup

Init ==
    InitWeightage /\ InitStrategy /\ InitPM /\ InitFlags /\ InitEngine /\ InitThreads
    /\ InitSetup

InitOms ==
    InitWeightage /\ InitStrategy /\ InitPM /\ InitFlagsOff /\ InitEngine /\ InitThreads
    /\ InitSetup

Next == StrategyTick

Spec == Init /\ [][Next]_vars

(***************************************************************************)
(* Actions of the position-manager specifications                          *)
(***************************************************************************)
PMFrame == UNCHANGED <<stratVars, candleVars, engineVars, threadVars, setupVars>>

Fill ==
    /\ nOps < MaxFills
    /\ \E f \in FillInputs : on_fill(f[1][1], f[2], RInt(f[3]), f[4], f[1][2])
    /\ nOps' = nOps + 1
    /\ PMFrame

\* on_fill as called by TickEngine.on_order_update for a COMPLETE update that
\* carries fillqty but no avg_prc: fill_price is 0.0
FillWithoutPrice ==
    /\ nOps < MaxFills
    /\ \E f \in UnpricedFillInputs : on_fill(f[1][1], f[2], RZero, f[3], f[1][2])
    /\ nOps' = nOps + 1
    /\ PMFrame

TslFill ==
    /\ nOps < MaxOps
    /\ \E f \in TslFillInputs : on_fill(f[1][1], f[2], RInt(f[3]), f[4], f[1][2])
    /\ nOps' = nOps + 1
    /\ PMFrame

TslUpdatePnl ==
    /\ nOps < MaxOps
    /\ \E market_prices \in TslSnapshots : update_pnl(market_prices)
    /\ nOps' = nOps + 1
    /\ PMFrame

\* fills of two instruments, with and without a fill price
PnlFill ==
    /\ nOps < MaxPnlOps
    /\ \E f \in PnlFillInputs : on_fill(f[1][1], f[2], RInt(f[3]), f[4], f[1][2])
    /\ nOps' = nOps + 1
    /\ PMFrame

PnlUpdate ==
    /\ nOps < MaxPnlOps
    /\ \E market_prices \in PnlSnapshots : update_pnl(market_prices)
    /\ nOps' = nOps + 1
    /\ PMFrame

NextPnl == PnlFill \/ PnlUpdate
SpecPnl == InitOms /\ [][NextPnl]_vars

NextFills == Fill \/ FillWithoutPrice
SpecFills == InitOms /\ [][NextFills]_vars

NextTSL == TslFill \/ TslUpdatePnl
SpecTSL == InitOms /\ [][NextTSL]_vars

(***************************************************************************)
(* Actions of the bar-aggregator specification                             *)
(***************************************************************************)
\* one call of resampler_3m.process_tick; timestamps may arrive out of order
CandleTick ==
    /\ cand_obs.calls < MaxCandleTicks
    /\ \E price \in CandlePrices, timestamp \in CandleTimes :
          LET out == process_tick(resampler_3m, 3, price, CandleVolume, timestamp)
          IN  /\ resampler_3m' = out.resampler
              /\ cand_obs' = ObserveCandle(resampler_3m, out, 3, price, timestamp)
    /\ UNCHANGED <<resampler_5m, stratVars, pmVars, engineVars, threadVars, setupVars>>

NextCandles == CandleTick
SpecCandles == InitOms /\ [][NextCandles]_vars

(***************************************************************************)
(* Actions of the tick-ingestion specification                             *)
(***************************************************************************)
FeedTick ==
    /\ nFeed < MaxFeedTicks
    /\ \E t \in FeedInputs :
          TickEngine_on_tick(t[1], t[2], t[3], t[4], now + FeedDelta, "NEUTRAL", <<>>)

NextFeed == FeedTick
SpecFeed == InitOms /\ [][NextFeed]_vars

(***************************************************************************)
(* Actions of the seeding specification: TickEngine.start seeds the        *)
(* history once, then the websocket delivers ticks                         *)
(***************************************************************************)
SeedHistory ==
    /\ feed_obs.op = "init"
    /\ \E index_history \in IndexHistories, stock_history \in SeedHistories :
          _seed_history(index_history, stock_history)
    /\ UNCHANGED <<current_prices, current_volumes, initial_volumes, position,
                   last_signal_time, score_buffer, price_history, SIMULATION_MODE,
                   ENABLE_STRADDLES, now, ret_signal, nTicks, emitted>>
    /\ UNCHANGED <<tracked_atms, auto_trading_enabled, PAPER_TRADING_MODE, order_log,
                   paper_position, nFeed>>
    /\ UNCHANGED <<pmVars, candleVars, threadVars, setupVars>>

SeedTick ==
    /\ feed_obs.op # "init"
    /\ nFeed < MaxSeedTicks
    /\ \E t \in SeedInputs :
          TickEngine_on_tick(t[1], t[2], t[3], t[4], now + FeedDelta, "NEUTRAL", <<>>)

NextSeed == SeedHistory \/ SeedTick
SpecSeed == InitOms /\ [][NextSeed]_vars

(***************************************************************************)
(* Actions of the order-flow specification                                 *)
(***************************************************************************)
EngineFrame ==
    UNCHANGED <<stratVars, candleVars, vwap_map, latest_prices, tracked_atms,
                PAPER_TRADING_MODE, paper_position, nOps, threadVars, setupVars>>

\* a tick of the index
OrderTick ==
    /\ nFeed < MaxEngineOps
    /\ \E price \in TickPrices, macro_trend \in {"BULLISH", "BEARISH"},
          replies \in BrokerReplies :
          TickEngine_on_tick("BANKNIFTY", price, 0, FALSE, now + FeedDelta,
                             macro_trend, replies)

\* a manual order from the dashboard
ManualOrder ==
    /\ nFeed < MaxEngineOps
    /\ \E m \in ManualInputs, reply \in BrokerReplies :
          place_manual_order(ManualSymbol, m[1], lot_size, m[2], "I", reply)
    /\ nFeed' = nFeed + 1
    /\ UNCHANGED auto_trading_enabled
    /\ EngineFrame

\* the broker reports on an order it accepted; nothing keeps it from
\* reporting the same order again
OrderUpdate ==
    /\ nFeed < MaxEngineOps
    /\ \E i \in 1..Len(order_log), u \in UpdateInputs :
          /\ order_log[i].live /\ order_log[i].accepted
          /\ on_order_update(i, u[1], u[2])
    /\ nFeed' = nFeed + 1
    /\ UNCHANGED auto_trading_enabled
    /\ EngineFrame

\* the dashboard switches auto-trading on or off
SetAutoTrade ==
    /\ nFeed < MaxEngineOps
    /\ \E enabled \in BOOLEAN : set_auto_trade(enabled)
    /\ nFeed' = nFeed + 1
    /\ UNCHANGED <<pmVars, order_log>>
    /\ EngineFrame

NextOrders == OrderTick \/ ManualOrder \/ OrderUpdate \/ SetAutoTrade
SpecOrders == InitOrders /\ [][NextOrders]_vars

(***************************************************************************)
(* Actions of the basket-strength specification                            *)
(***************************************************************************)
\* a tick of a basket member: TickEngine.on_tick feeds update_data
StrengthTick ==
    /\ nFeed < MaxStrengthTicks
    /\ \E t \in StrengthInputs :
          TickEngine_on_tick(t[1], t[2], t[3], t[4], now + FeedDelta, "NEUTRAL", <<>>)

NextStrength == StrengthTick
SpecStrength == InitOms /\ [][NextStrength]_vars

(***************************************************************************)
(* Actions of the strength-calculator specification: the public methods of *)
(* WeightageCalculator called directly                                     *)
(***************************************************************************)
CalcFrame ==
    UNCHANGED <<position, last_signal_time, score_buffer, price_history, SIMULATION_MODE,
                ENABLE_STRADDLES, now, ret_signal, nTicks, emitted, pmVars, candleVars,
                engineVars, threadVars, weights, HEDGED_ENTRIES, threshold, score_obs>>

WcUpdate ==
    /\ wc_obs.calls < MaxCalcCalls
    /\ \E symbol \in CalcSymbols, price \in CalcPrices, is_open \in BOOLEAN :
          update_data(symbol, price, 0, is_open)
    /\ wc_obs' = [op |-> "update_data", ret |-> RZero, calls |-> wc_obs.calls + 1]
    /\ CalcFrame

WcSetOpen ==
    /\ wc_obs.calls < MaxCalcCalls
    /\ \E symbol \in CalcSymbols, price \in CalcPrices : set_open_price(symbol, price)
    /\ wc_obs' = [op |-> "set_open_price", ret |-> RZero, calls |-> wc_obs.calls + 1]
    /\ CalcFrame

\* calculate_weighted_strength() assigns no attribute of the calculator
WcStrength ==
    /\ wc_obs.calls < MaxCalcCalls
    /\ wc_obs' = [op |-> "calculate_weighted_strength",
                  ret |-> calculate_weighted_strength, calls |-> wc_obs.calls + 1]
    /\ UNCHANGED <<open_prices, current_prices, current_volumes, initial_volumes>>
    /\ CalcFrame

\* WeightageCalculator(weights=...) with the index weights or the fixture's
InitCalc ==
    /\ InitWeightage /\ InitStrategy /\ InitPM /\ InitFlagsOff /\ InitEngine /\ InitThreads
    /\ weights \in {Weights, FixtureWeights}
    /\ HEDGED_ENTRIES = TRUE
    /\ threshold = MinStrength2
    /\ wc_obs = NoCalc
    /\ score_obs = NoScore

NextWeightage == WcUpdate \/ WcSetOpen \/ WcStrength
SpecWeightage == InitCalc /\ [][NextWeightage]_vars

(***************************************************************************)
(* Actions of the restart specification: fills, P&L updates and a restart  *)
(***************************************************************************)
RestartFill ==
    /\ nOps < MaxRestartOps
    /\ \E f \in RestartFillInputs : on_fill(f[1][1], f[2], RInt(f[3]), f[4], f[1][2])
    /\ nOps' = nOps + 1
    /\ PMFrame

RestartUpdatePnl ==
    /\ nOps < MaxRestartOps
    /\ \E market_prices \in TslSnapshots : update_pnl(market_prices)
    /\ nOps' = nOps + 1
    /\ PMFrame

\* the process is restarted: a new PositionManager loads the database
Restart ==
    /\ nOps < MaxRestartOps
    /\ _load_state
    /\ nOps' = nOps + 1
    /\ PMFrame

NextRestart == RestartFill \/ RestartUpdatePnl \/ Restart
SpecRestart == InitOms /\ [][NextRestart]_vars

(***************************************************************************)
(* Actions of the entry specification: Strategy.on_tick of strategies      *)
(* constructed with either threshold                                       *)
(***************************************************************************)
\* Strategy(wc, min_strength=2.5) or Strategy(wc, min_strength=1.0)
InitEntry ==
    /\ InitWeightage /\ InitStrategy /\ InitPM /\ InitFlags /\ InitEngine /\ InitThreads
    /\ weights = Weights
    /\ HEDGED_ENTRIES = TRUE
    /\ wc_obs = NoCalc
    /\ score_obs = NoScore
    /\ threshold \in {MinStrength2, LowStrength2}

EntryTick ==
    /\ nTicks < MaxEntryTicks
    /\ \E price \in TickPrices, dt \in TickDeltas, vwap \in TickVwaps,
          macro_trend \in MacroTrends :
          /\ now' = now + dt
          /\ on_tick(price, now + dt, RInt(vwap), macro_trend)
    /\ nTicks' = nTicks + 1
    /\ UNCHANGED <<open_prices, current_prices, current_volumes, initial_volumes,
                   SIMULATION_MODE, ENABLE_STRADDLES>>
    /\ UNCHANGED <<pmVars, candleVars, engineVars, threadVars, setupVars>>

NextEntry == EntryTick
SpecEntry == InitEntry /\ [][NextEntry]_vars

(***************************************************************************)
(* Actions of the score specification: Strategy.on_tick over every         *)
(* combination of the four factors                                         *)
(***************************************************************************)
InitScore ==
    /\ \E b \in ScoreBaskets :
          /\ open_prices = [x \in {"HDFCBANK"} |-> b[1]]
          /\ current_prices = [x \in {"HDFCBANK"} |-> b[2]]
    /\ current_volumes = [x \in {"HDFCBANK"} |-> 0]
    /\ initial_volumes = [x \in {"HDFCBANK"} |-> 0]
    /\ InitStrategy /\ InitPM /\ InitEngine /\ InitThreads /\ InitSetup
    /\ SIMULATION_MODE \in BOOLEAN
    /\ ENABLE_STRADDLES = FALSE

ScoreTick ==
    /\ nTicks < MaxScoreTicks
    /\ \E price \in ScorePrices, vwap \in ScoreVwaps, macro_trend \in MacroTrends :
          /\ now' = now + 30
          /\ on_tick(price, now + 30, RInt(vwap), macro_trend)
          /\ score_obs' = [price |-> price, vwap |-> RInt(vwap),
                           macro_trend |-> macro_trend]
    /\ nTicks' = nTicks + 1
    /\ UNCHANGED <<open_prices, current_prices, current_volumes, initial_volumes,
                   SIMULATION_MODE, ENABLE_STRADDLES>>
    /\ UNCHANGED <<pmVars, candleVars, engineVars, threadVars, weights, HEDGED_ENTRIES,
                   threshold, wc_obs>>

NextScore == ScoreTick
SpecScore == InitScore /\ [][NextScore]_vars

(***************************************************************************)
(* Actions of the momentum specification: Strategy.on_tick with the trend, *)
(* macro and basket factors at zero, so that the pushed score is the       *)
(* momentum factor, over tick gaps that reach past the 600 s window        *)
(***************************************************************************)
InitMomentum ==
    /\ InitWeightage /\ InitStrategy /\ InitPM /\ InitFlagsOff /\ InitEngine
    /\ InitThreads /\ InitSetup

MomentumTick ==
    /\ nTicks < MaxMomentumTicks
    /\ \E price \in MomentumPrices, dt \in MomentumDeltas :
          /\ now' = now + dt
          /\ on_tick(price, now + dt, RZero, "NEUTRAL")
          /\ score_obs' = [price |-> price, vwap |-> RZero, macro_trend |-> "NEUTRAL"]
    /\ nTicks' = nTicks + 1
    /\ UNCHANGED <<open_prices, current_prices, current_volumes, initial_volumes,
                   SIMULATION_MODE, ENABLE_STRADDLES>>
    /\ UNCHANGED <<pmVars, candleVars, engineVars, threadVars, weights, HEDGED_ENTRIES,
                   threshold, wc_obs>>

NextMomentum == MomentumTick
SpecMomentum == InitMomentum /\ [][NextMomentum]_vars

(***************************************************************************)
(* Actions of the product-class specification: manual orders placed with   *)
(* either product class, and the broker's updates on them                  *)
(***************************************************************************)
ProductManualOrder ==
    /\ nFeed < MaxProductOps
    /\ \E m \in ManualInputs, product_type \in ProductTypes, reply \in BrokerReplies :
          place_manual_order(ManualSymbol, m[1], lot_size, m[2], product_type, reply)
    /\ nFeed' = nFeed + 1
    /\ UNCHANGED auto_trading_enabled
    /\ EngineFrame

ProductOrderUpdate ==
    /\ nFeed < MaxProductOps
    /\ \E i \in 1..Len(order_log), u \in UpdateInputs :
          /\ order_log[i].live /\ order_log[i].accepted
          /\ on_order_update(i, u[1], u[2])
    /\ nFeed' = nFeed + 1
    /\ UNCHANGED auto_trading_enabled
    /\ EngineFrame

NextProducts == ProductManualOrder \/ ProductOrderUpdate
SpecProducts == InitOrders /\ [][NextProducts]_vars

(***************************************************************************)
(* Actions of the entry-leg specification: execute_signal called directly  *)
(***************************************************************************)
\* the engine state execute_signal leaves behind
SignalOutcome(c, signal_type, signal_price) ==
    /\ positions' = c.positions
    /\ order_log' = c.order_log
    /\ paper_position' = c.paper
    /\ auto_trading_enabled' = c.auto
    /\ feed_obs' = [NoFeedObs EXCEPT
                      !.op = "execute_signal", !.symbol = "BANKNIFTY",
                      !.price = signal_price, !.signal = signal_type,
                      !.raised = c.raised, !.stop = c.stop, !.sweeps = c.sweeps,
                      !.vlog = feed_obs.vlog]

\* engine.execute_signal(Signal(type, "BANKNIFTY", price, ...))
ExecuteSignal ==
    /\ nFeed < MaxSignalCalls
    /\ \E signal_type \in SignalTypes, signal_price \in SignalPrices,
          replies \in BrokerReplies :
          SignalOutcome(execute_signal(Ctx(replies), signal_type, signal_price),
                        signal_type, signal_price)
    /\ nFeed' = nFeed + 1
    /\ UNCHANGED <<stratVars, candleVars, vwap_map, latest_prices, tracked_atms,
                   PAPER_TRADING_MODE, pos_order, realized_pnl, db_positions,
                   db_realized_pnl, last_op, fill_log, nOps, threadVars, setupVars>>

\* the basket after ticks of HDFCBANK; either setting of HEDGED_ENTRIES
InitLegs ==
    /\ \E b \in BasketStates :
          /\ open_prices = [x \in {"HDFCBANK"} |-> b[1]]
          /\ current_prices = [x \in {"HDFCBANK"} |-> b[2]]
    /\ current_volumes = [x \in {"HDFCBANK"} |-> 0]
    /\ initial_volumes = [x \in {"HDFCBANK"} |-> 0]
    /\ InitStrategy /\ InitPM /\ InitFlagsOff
    /\ InitCandles /\ InitEngineState /\ InitEngineLoaded /\ InitThreads
    /\ weights = Weights
    /\ HEDGED_ENTRIES \in BOOLEAN
    /\ threshold = MinStrength2
    /\ wc_obs = NoCalc
    /\ score_obs = NoScore

NextLegs == ExecuteSignal
SpecLegs == InitLegs /\ [][NextLegs]_vars

(***************************************************************************)
(* Actions of the exit specification: index ticks, EXIT signals and order  *)
(* updates over a book of positions                                        *)
(***************************************************************************)
\* a position of q at 100 that no update_pnl has armed
Held(q) == [NewPosition EXCEPT !.net_qty = q, !.avg_price = RInt(100)]

\* a long of q at 100 armed by update_pnl at 110 (trigger 104.5) and breached
\* by update_pnl at 100
BreachedLong(q) ==
    [Held(q) EXCEPT !.tsl_active = TRUE, !.hwm = RInt(110),
                    !.tsl_trigger = TrailTrigger(RInt(110), 1), !.tsl_breached = TRUE]

\* a long of 15 opened at 100 and sold at 110 - loss / 15
ClosedAt(loss) == [NewPosition EXCEPT !.realized_pnl = RInt(-loss)]

\* books of the PositionManager, in dict order: Seq of <<key, position>>
ExitBooks ==
    { <<>>,
      << <<XC, Held(15)>> >>,
      << <<XC, BreachedLong(15)>> >>,
      << <<XC, Held(15)>>, <<XP, Held(-15)>> >>,
      << <<XC, BreachedLong(15)>>, <<XP, Held(15)>> >>,
      << <<XS, BreachedLong(15)>>, <<XC, Held(15)>> >>,
      << <<XL, ClosedAt(150)>>, <<XP, Held(15)>> >> }

BookMap(book) == [k \in {book[i][1] : i \in DOMAIN book} |->
                    (CHOOSE i \in DOMAIN book : book[i][1] = k)]

RECURSIVE BookRealized(_)
BookRealized(book) ==
    IF book = <<>> THEN RZero
    ELSE RAdd(Head(book)[2].realized_pnl, BookRealized(Tail(book)))

\* a PositionManager holding book, in step with the database
InitBook(book) ==
    /\ positions = [k \in DOMAIN BookMap(book) |-> book[BookMap(book)[k]][2]]
    /\ pos_order = [i \in DOMAIN book |-> book[i][1]]
    /\ realized_pnl = BookRealized(book)
    /\ db_positions = [k \in DOMAIN BookMap(book) |-> DbRow(book[BookMap(book)[k]][2])]
    /\ db_realized_pnl = BookRealized(book)
    /\ last_op = NoOp
    /\ fill_log = [k \in {x \in DOMAIN BookMap(book) : book[BookMap(book)[x]][2].net_qty # 0}
                     |-> << <<book[BookMap(book)[k]][2].net_qty, RInt(100)>> >>]
    /\ nOps = 0

\* the engine during a session: a book of positions, either trading mode,
\* auto-trading on or off, and in paper mode possibly a paper position
InitExit ==
    /\ InitWeightage /\ InitStrategy /\ InitFlagsOff /\ InitCandles /\ InitThreads
    /\ InitSetup
    /\ \E book \in ExitBooks : InitBook(book)
    /\ vwap_map = EmptyMap /\ latest_prices = EmptyMap /\ tracked_atms = EmptyMap
    /\ order_log = <<>> /\ feed_obs = NoFeedObs /\ nFeed = 0
    /\ InitEngineLoaded
    /\ paper_position \in {NoPaper} \cup
                          (IF PAPER_TRADING_MODE
                           THEN {enter_position("BUY_CE", 100, QUANTITY * lot_size)}
                           ELSE {})

\* a tick of the index
ExitTick ==
    /\ nFeed < MaxExitOps
    /\ \E delta \in ExitDeltas, replies \in ExitReplies :
          TickEngine_on_tick("BANKNIFTY", 100, 0, FALSE, now + delta, "NEUTRAL", replies)

\* execute_signal(Signal("EXIT", "BANKNIFTY", ...)) called on its own
ExitSignal ==
    /\ nFeed < MaxExitOps
    /\ \E replies \in ExitReplies :
          SignalOutcome(execute_signal(Ctx(replies), "EXIT", 100), "EXIT", 100)
    /\ nFeed' = nFeed + 1
    /\ UNCHANGED <<stratVars, candleVars, vwap_map, latest_prices, tracked_atms,
                   PAPER_TRADING_MODE, pos_order, realized_pnl, db_positions,
                   db_realized_pnl, last_op, fill_log, nOps, threadVars, setupVars>>

\* the broker reports, once, the fill of an order it accepted
ExitOrderUpdate ==
    /\ nFeed < MaxExitOps
    /\ \E i \in 1..Len(order_log) :
          /\ order_log[i].live /\ order_log[i].accepted /\ order_log[i].fills = 0
          /\ on_order_update(i, "COMPLETE", 100)
    /\ nFeed' = nFeed + 1
    /\ UNCHANGED auto_trading_enabled
    /\ EngineFrame

\* the dashboard switches auto-trading back on
ExitSetAutoTrade ==
    /\ nFeed < MaxExitOps
    /\ set_auto_trade(TRUE)
    /\ nFeed' = nFeed + 1
    /\ UNCHANGED <<pmVars, order_log>>
    /\ EngineFrame

NextExit == ExitTick \/ ExitSignal \/ ExitOrderUpdate \/ ExitSetAutoTrade
SpecExit == InitExit /\ [][NextExit]_vars

(***************************************************************************)
(* PositionManager called from two threads.  on_order_update runs on the   *)
(* broker's websocket thread (shoonya_client.start_websocket), the         *)
(* /api/positions handler runs on the web server's thread; neither takes a *)
(* lock.  Each step below is one Python statement of on_fill or of         *)
(* update_pnl, and the two threads interleave between statements (the      *)
(* interpreter may also switch inside a statement).                        *)
(***************************************************************************)
ThreadFrame == UNCHANGED <<stratVars, candleVars, engineVars, setupVars>>
WsFrame == UNCHANGED <<api_pc, api_frame, nOps>>
ApiFrame == UNCHANGED <<ws_pc, ws_frame, nOps, pos_order, realized_pnl, db_positions,
                        db_realized_pnl, fill_log>>
PosOnly == UNCHANGED <<pos_order, realized_pnl, db_positions, db_realized_pnl,
                       last_op, fill_log>>
WsPos == positions[ws_frame.pos_key]

\* pos_key = ...; if pos_key not in self.positions: ...; pos = ...; fill_qty = ...
OnFillEnter ==
    /\ ws_pc = "idle" /\ nOps < MaxThreadCalls
    /\ \E f \in ThreadFillInputs :
          LET isNew == f[1] \notin DOMAIN positions
          IN  /\ positions' = IF isNew THEN Put(positions, f[1], NewPosition) ELSE positions
              /\ pos_order' = IF isNew THEN Append(pos_order, f[1]) ELSE pos_order
              /\ ws_frame' = [NoFillFrame EXCEPT
                                 !.pos_key = f[1], !.fill_qty = SignedQty(f[2], f[4]),
                                 !.price = RInt(f[3]),
                                 !.pre = IF isNew THEN NewPosition ELSE positions[f[1]]]
    /\ ws_pc' = "branch"
    /\ nOps' = nOps + 1
    /\ UNCHANGED <<realized_pnl, db_positions, db_realized_pnl, last_op, fill_log,
                   api_pc, api_frame>>
    /\ ThreadFrame

\* if pos["net_qty"] == 0: ... elif same direction: ... else: ...
OnFillBranch ==
    /\ ws_pc = "branch"
    /\ ws_pc' = IF WsPos.net_qty = 0 THEN "flat_avg"
                ELSE IF SameDirection(WsPos.net_qty, ws_frame.fill_qty) THEN "add_total"
                ELSE "close_profit"
    /\ UNCHANGED <<positions, ws_frame>>
    /\ PosOnly /\ WsFrame /\ ThreadFrame

\* pos["avg_price"] = price
OnFillFlatAvg ==
    /\ ws_pc = "flat_avg"
    /\ positions' = [positions EXCEPT ![ws_frame.pos_key].avg_price = ws_frame.price]
    /\ ws_pc' = "flat_qty"
    /\ UNCHANGED ws_frame
    /\ PosOnly /\ WsFrame /\ ThreadFrame

\* pos["net_qty"] = fill_qty
OnFillFlatQty ==
    /\ ws_pc = "flat_qty"
    /\ positions' = [positions EXCEPT ![ws_frame.pos_key].net_qty = ws_frame.fill_qty]
    /\ ws_pc' = "persist"
    /\ UNCHANGED ws_frame
    /\ PosOnly /\ WsFrame /\ ThreadFrame

\* total_val = (pos["net_qty"] * pos["avg_price"]) + (fill_qty * price)
OnFillAddTotal ==
    /\ ws_pc = "add_total"
    /\ ws_frame' = [ws_frame EXCEPT !.total_val =
                       RAdd(RMul(RInt(WsPos.net_qty), WsPos.avg_price),
                            RMul(RInt(ws_frame.fill_qty), ws_frame.price))]
    /\ ws_pc' = "add_qty"
    /\ UNCHANGED positions
    /\ PosOnly /\ WsFrame /\ ThreadFrame

\* pos["net_qty"] += fill_qty
OnFillAddQty ==
    /\ ws_pc = "add_qty"
    /\ positions' = [positions EXCEPT
                        ![ws_frame.pos_key].net_qty = WsPos.net_qty + ws_frame.fill_qty]
    /\ ws_pc' = "add_avg"
    /\ UNCHANGED ws_frame
    /\ PosOnly /\ WsFrame /\ ThreadFrame

\* pos["avg_price"] = total_val / pos["net_qty"]
OnFillAddAvg ==
    /\ ws_pc = "add_avg"
    /\ positions' = [positions EXCEPT
                        ![ws_frame.pos_key].avg_price =
                            RDiv(ws_frame.total_val, RInt(WsPos.net_qty))]
    /\ ws_pc' = "persist"
    /\ UNCHANGED ws_frame
    /\ PosOnly /\ WsFrame /\ ThreadFrame

\* closing_qty = abs(fill_qty); profit = ...
OnFillCloseProfit ==
    /\ ws_pc = "close_profit"
    /\ ws_frame' = [ws_frame EXCEPT !.profit =
                       Profit(WsPos, ws_frame.fill_qty, ws_frame.price)]
    /\ ws_pc' = "close_real"
    /\ UNCHANGED positions
    /\ PosOnly /\ WsFrame /\ ThreadFrame

\* pos["realized_pnl"] += profit; self.realized_pnl += profit
OnFillCloseRealized ==
    /\ ws_pc = "close_real"
    /\ positions' = [positions EXCEPT
                        ![ws_frame.pos_key].realized_pnl =
                            RAdd(WsPos.realized_pnl, ws_frame.profit)]
    /\ realized_pnl' = RAdd(realized_pnl, ws_frame.profit)
    /\ ws_pc' = "close_qty"
    /\ UNCHANGED <<ws_frame, pos_order, db_positions, db_realized_pnl, last_op, fill_log>>
    /\ WsFrame /\ ThreadFrame

\* pos["net_qty"] += fill_qty
OnFillCloseQty ==
    /\ ws_pc = "close_qty"
    /\ positions' = [positions EXCEPT
                        ![ws_frame.pos_key].net_qty = WsPos.net_qty + ws_frame.fill_qty]
    /\ ws_pc' = "close_avg"
    /\ UNCHANGED ws_frame
    /\ PosOnly /\ WsFrame /\ ThreadFrame

\* if pos["net_qty"] == 0: pos["avg_price"] = 0.0
OnFillCloseAvg ==
    /\ ws_pc = "close_avg"
    /\ positions' = [positions EXCEPT
                        ![ws_frame.pos_key].avg_price =
                            AvgAfterClose(WsPos.net_qty, WsPos.avg_price)]
    /\ ws_pc' = "persist"
    /\ UNCHANGED ws_frame
    /\ PosOnly /\ WsFrame /\ ThreadFrame

\* db.save_position(symbol, pos, product); db.save_state("realized_pnl", ...)
OnFillPersist ==
    /\ ws_pc = "persist"
    /\ db_positions' = Put(db_positions, ws_frame.pos_key, DbRow(WsPos))
    /\ db_realized_pnl' = realized_pnl
    /\ last_op' = [NoOp EXCEPT !.op = "on_fill", !.key = ws_frame.pos_key,
                               !.fill_qty = ws_frame.fill_qty, !.price = ws_frame.price,
                               !.pre = ws_frame.pre]
    /\ fill_log' = Put(fill_log, ws_frame.pos_key,
                       IF ws_frame.pre.net_qty = 0
                       THEN << <<ws_frame.fill_qty, ws_frame.price>> >>
                       ELSE Append(fill_log[ws_frame.pos_key],
                                   <<ws_frame.fill_qty, ws_frame.price>>))
    /\ ws_pc' = "idle"
    /\ ws_frame' = NoFillFrame
    /\ UNCHANGED <<positions, pos_order, realized_pnl>>
    /\ WsFrame /\ ThreadFrame

\* net quantity, average price and realized P&L of one position
CoreOf(pos) == <<pos.net_qty, pos.avg_price, pos.realized_pnl>>

\* the position under key k carries some but not all writes of the on_fill
\* that is running on it
HalfUpdated(k) ==
    /\ ws_pc # "idle" /\ ws_frame.pos_key = k
    /\ CoreOf(positions[k]) # CoreOf(ws_frame.pre)
    /\ CoreOf(positions[k]) #
           CoreOf(FillPosition(ws_frame.pre, ws_frame.fill_qty, ws_frame.price))

\* pm.update_pnl(market_data.latest_prices): total_unrealized = 0.0; iter(items())
UpdatePnlEnter ==
    /\ api_pc = "idle" /\ nOps < MaxThreadCalls
    /\ \E market_prices \in ThreadSnapshots :
          api_frame' = [NoPnlFrame EXCEPT !.i = 1, !.n = Len(pos_order),
                                          !.market_prices = market_prices]
    /\ api_pc' = "loop"
    /\ nOps' = nOps + 1
    /\ UNCHANGED <<positions, pos_order, realized_pnl, db_positions, db_realized_pnl,
                   last_op, fill_log, ws_pc, ws_frame>>
    /\ ThreadFrame

\* for (symbol, product), pos in self.positions.items(): if pos["net_qty"] == 0: ...
\* The dict iterator raises RuntimeError when the dict has changed size.
UpdatePnlLoop ==
    /\ api_pc = "loop"
    /\ IF Len(pos_order) # api_frame.n
       THEN /\ api_pc' = "idle"
            /\ api_frame' = [api_frame EXCEPT !.raised = TRUE]
            /\ last_op' = [NoOp EXCEPT !.op = "update_pnl", !.raised = TRUE]
            /\ UNCHANGED positions
       ELSE IF api_frame.i > api_frame.n
       THEN /\ api_pc' = "idle"
            /\ last_op' = [NoOp EXCEPT !.op = "update_pnl",
                                       !.ret = api_frame.total_unrealized]
            /\ UNCHANGED <<positions, api_frame>>
       ELSE LET k == pos_order[api_frame.i]
            IN  IF positions[k].net_qty = 0
                THEN /\ positions' = [positions EXCEPT ![k].unrealized_pnl = RZero]
                     /\ api_frame' = [api_frame EXCEPT !.i = api_frame.i + 1, !.pos_key = k]
                     /\ UNCHANGED <<api_pc, last_op>>
                ELSE /\ api_frame' = [api_frame EXCEPT !.pos_key = k]
                     /\ api_pc' = "pnl"
                     /\ UNCHANGED <<positions, last_op>>
    /\ ApiFrame /\ ThreadFrame

\* ltp = ...; pos["unrealized_pnl"] = ...; total_unrealized += pos["unrealized_pnl"]
UpdatePnlCompute ==
    /\ api_pc = "pnl"
    /\ LET k   == api_frame.pos_key
           pos == positions[k]
           ltp == Ltp(api_frame.market_prices, k[1], pos)
           u   == Unrealized(pos, ltp)
       IN  /\ positions' = [positions EXCEPT ![k].unrealized_pnl = u]
           /\ api_frame' = [api_frame EXCEPT
                               !.ltp = ltp,
                               !.total_unrealized = RAdd(api_frame.total_unrealized, u),
                               !.half_updated = HalfUpdated(k)]
    /\ api_pc' = "tsl"
    /\ UNCHANGED last_op
    /\ ApiFrame /\ ThreadFrame

\* if pos["net_qty"] != 0: self._manage_tsl(pos, ltp)
UpdatePnlTsl ==
    /\ api_pc = "tsl"
    /\ LET k   == api_frame.pos_key
           pos == positions[k]
       IN  IF TslRaises(pos)
           THEN /\ api_pc' = "idle"
                /\ api_frame' = [api_frame EXCEPT !.raised = TRUE]
                /\ last_op' = [NoOp EXCEPT !.op = "update_pnl", !.raised = TRUE]
                /\ UNCHANGED positions
           ELSE /\ positions' = [positions EXCEPT ![k] = _manage_tsl(pos, api_frame.ltp)]
                /\ api_frame' = [api_frame EXCEPT
                                    !.i = api_frame.i + 1,
                                    !.half_updated = api_frame.half_updated
                                                     \/ (pos.net_qty # 0 /\ HalfUpdated(k))]
                /\ api_pc' = "loop"
                /\ UNCHANGED last_op
    /\ ApiFrame /\ ThreadFrame

NextThreads ==
    \/ OnFillEnter \/ OnFillBranch \/ OnFillFlatAvg \/ OnFillFlatQty
    \/ OnFillAddTotal \/ OnFillAddQty \/ OnFillAddAvg
    \/ OnFillCloseProfit \/ OnFillCloseRealized \/ OnFillCloseQty \/ OnFillCloseAvg
    \/ OnFillPersist
    \/ UpdatePnlEnter \/ UpdatePnlLoop \/ UpdatePnlCompute \/ UpdatePnlTsl
SpecThreads == InitOms /\ [][NextThreads]_vars

(***************************************************************************)
(* Signal engine properties (checked under Spec)                           *)
(***************************************************************************)
EntrySignals == {"BUY_CE", "BUY_PE", "BUY_STRADDLE"}
OpenStances == {"CE", "PE", "STRADDLE"}
IsTick == nTicks' # nTicks

NoTwoEntriesInARow(e) ==
    \A i \in 1..(Len(e) - 1) : e[i][1] \in EntrySignals => e[i + 1][1] = "EXIT"

\* C1: an entry signal is emitted only from stance NONE and an EXIT only from
\* an open stance, so two entry signals are always separated by an EXIT.
C1_NoDoubleEntry ==
    [][IsTick =>
         /\ ret_signal' \in EntrySignals => position = "NONE"
         /\ ret_signal' = "EXIT" => position \in OpenStances
         /\ NoTwoEntriesInARow(emitted')]_vars

C1_Witness ==
    /\ Len(emitted) >= 3
    /\ emitted[1][1] \in EntrySignals
    /\ emitted[2][1] = "EXIT"
    /\ emitted[3][1] \in EntrySignals

\* C2: none of the first MinConfirmation - 1 calls of on_tick returns a signal,
\* whatever the scores are.
C2_NoSignalBeforeBufferFull ==
    nTicks < MinConfirmation => (ret_signal = "NONE" /\ emitted = <<>>)

\* a call before the buffer is full whose score alone reaches the threshold
C2_Witness ==
    /\ nTicks >= 1
    /\ nTicks = MinConfirmation - 1
    /\ SumSeq(score_buffer) >= MinStrength2 * Len(score_buffer)
    /\ ret_signal = "NONE"

\* C3: any two emitted signals are at least MinHoldTime apart.
C3_CoolDown ==
    \A i, j \in 1..Len(emitted) :
        i < j => emitted[j][2] - emitted[i][2] >= MinHoldTime

\* a call inside the cool-down whose scores would otherwise have produced a signal
C3_Witness ==
    /\ Len(emitted) >= 1
    /\ Len(score_buffer) = MinConfirmation
    /\ now - last_signal_time < MinHoldTime
    /\ ret_signal = "NONE"
    /\ Transition(score_buffer,
                  Momentum2(price_history, price_history[Len(price_history)][2], now),
                  now).signal # "NONE"

\* C4: on_tick returns a signal exactly when the stance changes, and exactly
\* then last_signal_time becomes the tick's timestamp; otherwise both are kept.
C4_AtomicTransition ==
    [][IsTick =>
         /\ (ret_signal' # "NONE") <=> (position' # position)
         /\ ret_signal' # "NONE" => last_signal_time' = now'
         /\ ret_signal' = "NONE" => last_signal_time' = last_signal_time]_vars

C4_Witness ==
    /\ ret_signal = "EXIT"
    /\ position = "NONE"
    /\ last_signal_time = now

(***************************************************************************)
(* Position manager properties                                             *)
(***************************************************************************)
RECURSIVE SumQty(_)
SumQty(log) == IF log = <<>> THEN 0 ELSE Head(log)[1] + SumQty(Tail(log))

RECURSIVE SumQtyPrice(_)
SumQtyPrice(log) ==
    IF log = <<>> THEN RZero
    ELSE RAdd(RMul(RInt(Head(log)[1]), Head(log)[2]), SumQtyPrice(Tail(log)))

AllBuys(log) == \A i \in 1..Len(log) : log[i][1] > 0
AllSells(log) == \A i \in 1..Len(log) : log[i][1] < 0

\* C5: after same-direction fills from flat, net quantity is the sum of the
\* signed quantities and avg * net is the sum of signed quantity * price.
C5_WeightedMean ==
    \A k \in DOMAIN positions :
        (AllBuys(fill_log[k]) \/ AllSells(fill_log[k])) =>
            /\ positions[k].net_qty = SumQty(fill_log[k])
            /\ RMul(positions[k].avg_price, RInt(positions[k].net_qty))
                 = SumQtyPrice(fill_log[k])

C5_Witness ==
    /\ K1 \in DOMAIN positions
    /\ Len(fill_log[K1]) = 3
    /\ AllBuys(fill_log[K1])
    /\ fill_log[K1][1] = <<10, RInt(100)>>
    /\ fill_log[K1][2] = <<5, RInt(110)>>
    /\ fill_log[K1][3][2] = RInt(120)

RECURSIVE SumRealized(_)
SumRealized(S) ==
    IF S = {} THEN RZero
    ELSE LET k == CHOOSE x \in S : TRUE
         IN  RAdd(positions[k].realized_pnl, SumRealized(S \ {k}))

Scenario == << <<10, RInt(100)>>, <<5, RInt(110)>>, <<-15, RInt(120)>> >>

\* C6: a flat position has average price zero, the manager-wide realized P&L is
\* the sum of the positions' realized P&L, and long 10 at 100, buy 5 at 110,
\* sell 15 at 120 ends with net 0, average 0 and realized 250.
C6_RoundTrip ==
    /\ \A k \in DOMAIN positions :
          positions[k].net_qty = 0 => positions[k].avg_price = RZero
    /\ realized_pnl = SumRealized(DOMAIN positions)
    /\ \A k \in DOMAIN positions :
          (nOps = 3 /\ fill_log[k] = Scenario) =>
              /\ positions[k].net_qty = 0
              /\ positions[k].avg_price = RZero
              /\ positions[k].realized_pnl = RInt(250)
              /\ realized_pnl = RInt(250)

C6_Witness ==
    /\ K1 \in DOMAIN positions
    /\ nOps = 3
    /\ fill_log[K1] = Scenario
    /\ positions[K1].realized_pnl = RInt(250)

\* C7: a reducing or reversing fill realizes (exit - avg) * closed_qty for a long
\* and (avg - exit) * closed_qty for a short with
\* closed_qty = min(|fill quantity|, |net quantity before the fill|).
C7_ClosedPortion ==
    (/\ last_op.op = "on_fill"
     /\ last_op.pre.net_qty # 0
     /\ ~SameDirection(last_op.pre.net_qty, last_op.fill_qty)) =>
        LET closed == Min(Abs(last_op.fill_qty), Abs(last_op.pre.net_qty))
            delta  == RSub(positions[last_op.key].realized_pnl, last_op.pre.realized_pnl)
        IN  delta = IF last_op.pre.net_qty > 0
                    THEN RMul(RSub(last_op.price, last_op.pre.avg_price), RInt(closed))
                    ELSE RMul(RSub(last_op.pre.avg_price, last_op.price), RInt(closed))

\* C8: in every reachable state the average price of a position is zero
\* exactly when its net quantity is zero.
C8_AvgZeroIffFlat ==
    \A k \in DOMAIN positions :
        (positions[k].avg_price = RZero) <=> (positions[k].net_qty = 0)

\* C9: once the trailing stop is armed the trigger never moves against the
\* position: non-decreasing for a long, non-increasing for a short.
C9_TriggerMonotone ==
    [][\A k \in DOMAIN positions :
          positions[k].tsl_active =>
              /\ positions'[k].net_qty > 0 =>
                    RLe(positions[k].tsl_trigger, positions'[k].tsl_trigger)
              /\ positions'[k].net_qty < 0 =>
                    RLe(positions'[k].tsl_trigger, positions[k].tsl_trigger)]_vars

\* C10: the breached flag stays set while the position remains open, and a
\* position reopened after its net quantity returned to zero is reported as
\* not breached.
C10_BreachSticky ==
    [][\A k \in DOMAIN positions :
          /\ (/\ positions[k].tsl_breached
              /\ positions[k].net_qty # 0
              /\ positions'[k].net_qty # 0) => positions'[k].tsl_breached
          /\ (positions[k].net_qty = 0 /\ positions'[k].net_qty # 0) =>
                 ~(check_tsl_breach(k[1], k[2]))']_vars

(***************************************************************************)
(* Bar aggregator properties (checked under SpecCandles)                   *)
(***************************************************************************)
RECURSIVE MaxSeq(_)
MaxSeq(q) == IF Len(q) = 1 THEN q[1] ELSE Max(Head(q), MaxSeq(Tail(q)))

RECURSIVE MinSeq(_)
MinSeq(q) == IF Len(q) = 1 THEN q[1] ELSE Min(Head(q), MinSeq(Tail(q)))

\* C18: process_tick returns a bar exactly when the tick's bucket start is
\* strictly later than the current bar's, one bar per call whatever the gap;
\* the returned bar is complete and is the single bar appended by the call, so
\* the history is strictly increasing in bucket start.
C18_OneBarPerCrossing ==
    LET h == resampler_3m.candles
    IN  cand_obs.calls > 0 =>
          /\ (cand_obs.ret # NoCandle) <=>
                (cand_obs.pre_bucket # -1 /\ cand_obs.bucket > cand_obs.pre_bucket)
          /\ cand_obs.ret # NoCandle =>
                /\ cand_obs.ret.complete
                /\ cand_obs.ret.timestamp = cand_obs.pre_bucket
                /\ Len(h) = cand_obs.pre_len + 1
                /\ h[Len(h)] = cand_obs.ret
          /\ cand_obs.ret = NoCandle => Len(h) = cand_obs.pre_len
          /\ \A i \in 1..Len(h) : h[i].complete
          /\ \A i, j \in 1..Len(h) : i < j => h[i].timestamp < h[j].timestamp

\* a call whose tick is two buckets later than the current bar: one bar only
C18_Witness ==
    /\ cand_obs.ret # NoCandle
    /\ cand_obs.bucket - cand_obs.pre_bucket > 180
    /\ Len(resampler_3m.candles) = 2

\* C19: every completed bar has high = max, low = min, open = first and
\* close = last of the prices processed while it was the current bar, and a
\* bar in the history is never changed by a later call.
C19_BarBoundsPrices ==
    [][/\ \A i \in 1..Len(resampler_3m.candles') :
             LET c == resampler_3m.candles'[i]
                 q == cand_obs.done_seen'[i]
             IN  /\ c.high = MaxSeq(q)
                 /\ c.low = MinSeq(q)
                 /\ c.open = q[1]
                 /\ c.close = q[Len(q)]
       /\ \A i \in 1..Len(resampler_3m.candles) :
             resampler_3m.candles'[i] = resampler_3m.candles[i]]_vars

\* a returned bar built from three ticks whose highest price is not the last
C19_Witness ==
    /\ cand_obs.ret # NoCandle
    /\ Len(cand_obs.done_seen) >= 1
    /\ cand_obs.done_seen[Len(cand_obs.done_seen)] = <<100, 110, 90>>
    /\ cand_obs.ret.high = 110
    /\ cand_obs.ret.low = 90

(***************************************************************************)
(* Tick ingestion properties (checked under SpecFeed)                      *)
(***************************************************************************)
IsFeedTick == nFeed' # nFeed /\ feed_obs'.op = "on_tick"

NonDecreasingVolume(log) == \A i \in 1..(Len(log) - 1) : log[i][2] <= log[i + 1][2]

\* volume delta of the i-th tick of a log, measured from 0 for the first one
LogDelta(log, i) == log[i][2] - (IF i = 1 THEN 0 ELSE log[i - 1][2])

RECURSIVE SumDelta(_, _)
SumDelta(log, i) == IF i = 0 THEN 0 ELSE LogDelta(log, i) + SumDelta(log, i - 1)

RECURSIVE SumPriceDelta(_, _)
SumPriceDelta(log, i) ==
    IF i = 0 THEN 0 ELSE log[i][1] * LogDelta(log, i) + SumPriceDelta(log, i - 1)

\* C15: for the ticks of one instrument with non-decreasing cumulative volume,
\* cum_vol is the sum of the volume deltas, cum_pv the sum of price * delta,
\* and the published VWAP is cum_pv / cum_vol when cum_vol > 0 and the
\* current price otherwise.
C15_VwapIsWeightedMean ==
    \A sym \in DOMAIN vwap_map :
        LET log == feed_obs.vlog[sym]
            n   == Len(log)
        IN  NonDecreasingVolume(log) =>
              /\ vwap_map[sym].cum_vol = SumDelta(log, n)
              /\ vwap_map[sym].cum_pv = SumPriceDelta(log, n)
              /\ latest_prices[sym].vwap =
                    IF SumDelta(log, n) > 0
                    THEN RNorm(SumPriceDelta(log, n), SumDelta(log, n))
                    ELSE RInt(log[n][1])

\* three ticks, two positive deltas at different prices: VWAP 105
C15_Witness ==
    /\ "HDFCBANK" \in DOMAIN vwap_map
    /\ feed_obs.vlog["HDFCBANK"] = << <<110, 0>>, <<100, 10>>, <<110, 20>> >>
    /\ latest_prices["HDFCBANK"].vwap = RInt(105)

\* C16: a tick whose cumulative volume is below the last-seen volume of its
\* instrument leaves cum_vol, cum_pv and last_vol unchanged, and the running
\* VWAP is the same before and after it.
C16_LowerVolumeIgnored ==
    [][(/\ IsFeedTick
        /\ feed_obs'.symbol \in DOMAIN vwap_map
        /\ feed_obs'.volume < vwap_map[feed_obs'.symbol].last_vol) =>
           /\ vwap_map'[feed_obs'.symbol] = vwap_map[feed_obs'.symbol]
           /\ latest_prices'[feed_obs'.symbol].vwap
                = latest_prices[feed_obs'.symbol].vwap]_vars

\* a processed tick with a positive volume below the baseline
C16_Witness ==
    /\ feed_obs.op = "on_tick"
    /\ feed_obs.price > 0
    /\ feed_obs.volume > 0
    /\ feed_obs.symbol \in DOMAIN vwap_map
    /\ feed_obs.volume < vwap_map[feed_obs.symbol].last_vol

\* C17: a tick with price <= 0 changes none of the derived state and raises
\* no error.
C17_NonPositivePriceDiscarded ==
    [][(IsFeedTick /\ feed_obs'.price <= 0) =>
           /\ UNCHANGED <<vwap_map, latest_prices, tracked_atms, resampler_3m,
                          resampler_5m, open_prices, current_prices, current_volumes,
                          initial_volumes, score_buffer, price_history, position>>
           /\ ~feed_obs'.raised]_vars

(***************************************************************************)
(* Basket strength properties (checked under SpecStrength)                 *)
(***************************************************************************)
HasData(sym) == sym \in DOMAIN open_prices /\ sym \in DOMAIN current_prices

\* the step raises the current price of member sym above its open price and
\* changes no other price and no open price
RaisesOnly(sym) ==
    /\ HasData(sym)
    /\ weights[sym] > 0
    /\ open_prices' = open_prices
    /\ DOMAIN current_prices' = DOMAIN current_prices
    /\ current_prices'[sym] > current_prices[sym]
    /\ current_prices'[sym] > open_prices[sym]
    /\ \A other \in DOMAIN current_prices \ {sym} :
          current_prices'[other] = current_prices[other]

\* C20: the weighted strength is zero when every basket member's current
\* price equals its open price, and it strictly increases when one member's
\* current price is raised above its open with everything else held fixed.
C20_StrengthMonotone ==
    [][/\ (\A sym \in Basket : HasData(sym) => current_prices'[sym] = open_prices'[sym])
            => StrengthOf(open_prices', current_prices') = RZero
       /\ \A sym \in Basket :
            RaisesOnly(sym) =>
                RLt(calculate_weighted_strength,
                    StrengthOf(open_prices', current_prices'))]_vars

C12_FillAppliedOnce ==
    \A i \in 1..Len(order_log) :
        order_log[i].accepted =>
            /\ order_log[i].fills <= 1
            /\ ~order_log[i].live => order_log[i].fills = 1

\* net quantity, average price and realized P&L of every position
Core(ps) == [k \in DOMAIN ps |-> <<ps[k].net_qty, ps[k].avg_price, ps[k].realized_pnl>>]

\* C13: a step in which an order placement fails applies no fill for that
\* order and leaves net quantity, average price and realized P&L of every
\* position unchanged.
C13_FailedOrderNotFilled ==
    [][\A i \in (Len(order_log) + 1)..Len(order_log') :
          ~order_log'[i].accepted =>
              /\ order_log'[i].fills = 0
              /\ Core(positions') = Core(positions)
              /\ realized_pnl' = realized_pnl]_vars

(***************************************************************************)
(* Thread-safety property (checked under SpecThreads)                      *)
(***************************************************************************)
\* C14: on_fill and update_pnl exclude each other per position key:
\* update_pnl never computes the unrealized P&L or the trailing stop of a
\* position that carries some but not all writes of a running on_fill.
C14_NoHalfUpdatedRead == ~api_frame.half_updated

(***************************************************************************)
(* Strength-calculator properties (checked under SpecWeightage)            *)
(***************************************************************************)
REq(a, b) == a[1] * b[2] = b[1] * a[2]

\* weight * (current - open) / open * 100 of a member that has both prices
\* and a non-zero open, as a fraction; 0/1 for every other member
TermOf(sym) ==
    IF sym \in DOMAIN open_prices /\ sym \in DOMAIN current_prices
    THEN IF open_prices[sym] # 0
         THEN RNorm(weights[sym] * (current_prices[sym] - open_prices[sym]) * 100,
                    open_prices[sym])
         ELSE RZero
    ELSE RZero

\* the sum of the two members' terms
ExpectedStrength ==
    LET a == TermOf("HDFCBANK")
        b == TermOf("ICICIBANK")
    IN  RNorm(a[1] * b[2] + b[1] * a[2], a[2] * b[2])

FixtureScenario ==
    /\ weights = FixtureWeights
    /\ open_prices = [HDFCBANK |-> 1000, ICICIBANK |-> 1000]
    /\ current_prices = [HDFCBANK |-> 1010, ICICIBANK |-> 1000]

\* C21: calculate_weighted_strength returns the sum of weight * (current -
\* open) / open * 100 over the members that have both prices and a non-zero
\* open, skips every other member, gives 50 for the two-member scenario, and
\* changes no state of the calculator.
C21_StrengthIsWeightedSum ==
    [][wc_obs'.op = "calculate_weighted_strength" =>
          /\ REq(wc_obs'.ret, ExpectedStrength)
          /\ FixtureScenario => wc_obs'.ret = <<50, 1>>
          /\ UNCHANGED <<open_prices, current_prices, current_volumes, initial_volumes,
                         weights>>]_vars

C21_Witness ==
    /\ wc_obs.op = "calculate_weighted_strength"
    /\ FixtureScenario
    /\ wc_obs.ret = <<50, 1>>

(***************************************************************************)
(* Open-price reference (checked under SpecStrength)                       *)
(***************************************************************************)
\* C22: once a basket member's open price is set, no tick routed through
\* TickEngine.on_tick changes it.
C22_OpenPriceSetOnce ==
    [][\A sym \in DOMAIN open_prices : open_prices'[sym] = open_prices[sym]]_vars
(***************************************************************************)
(* Entry-leg properties (checked under SpecLegs)                           *)
(***************************************************************************)
\* the multiples of 100 nearest to price
NearestHundreds(price) ==
    {a \in {(price \div 100) * 100, (price \div 100) * 100 + 100} :
        2 * Abs(a - price) <= 100}

\* the strength-tiered offset
TierOffset ==
    LET s == calculate_weighted_strength
        a == IF RLt(s, RZero) THEN RSub(RZero, s) ELSE s
    IN  IF RLt(RInt(8), a) THEN 200 ELSE IF RLt(<<13, 2>>, a) THEN 100 ELSE 0

\* <<symbol, tag>> of the legs expected for a signal
ExpectedLegs(signal_type, atm) ==
    LET leg(t, strike, tag) == <<_get_option_symbol(t, strike), tag>>
    IN  CASE signal_type = "BUY_CE" ->
               <<leg("C", atm + TierOffset, "MAIN")>>
               \o (IF HEDGED_ENTRIES THEN <<leg("P", atm - HEDGE_OTM_STEP, "WING")>>
                   ELSE <<>>)
          [] signal_type = "BUY_PE" ->
               <<leg("P", atm - TierOffset, "MAIN")>>
               \o (IF HEDGED_ENTRIES THEN <<leg("C", atm + HEDGE_OTM_STEP, "WING")>>
                   ELSE <<>>)
          [] signal_type = "BUY_STRADDLE" ->
               <<leg("C", atm, "MAIN"), leg("P", atm, "MAIN")>>
          [] OTHER -> <<>>

\* the entry orders one call appended to the order log
PlacedLegs(before, after) ==
    LET placed == SelectSeq(SubSeq(after, Len(before) + 1, Len(after)),
                            LAMBDA o : o.origin = "ENTRY")
    IN  [i \in 1..Len(placed) |-> <<placed[i].symbol, placed[i].tag>>]

\* C23: the entry legs execute_signal places are those determined by the
\* signal type, the signal price rounded to the nearest 100, the strength
\* tier of the basket and the hedged flag: MAIN call at ATM + offset for
\* BUY_CE, MAIN put at ATM - offset for BUY_PE, then one opposite WING at the
\* hedge step when hedged; a MAIN call and a MAIN put at ATM for
\* BUY_STRADDLE; nothing for EXIT.
C23_EntryLegs ==
    [][feed_obs'.op = "execute_signal" =>
          \E atm \in NearestHundreds(feed_obs'.price) :
              PlacedLegs(order_log, order_log') = ExpectedLegs(feed_obs'.signal, atm)]_vars

\* a hedged BUY_CE at 50020 with strength 14: MAIN C50200, then WING P49000
C23_Witness ==
    /\ feed_obs.op = "execute_signal" /\ feed_obs.signal = "BUY_CE"
    /\ feed_obs.price = 50020 /\ HEDGED_ENTRIES
    /\ Len(order_log) = 2
    /\ order_log[1].symbol = _get_option_symbol("C", 50200) /\ order_log[1].tag = "MAIN"
    /\ order_log[2].symbol = _get_option_symbol("P", 49000) /\ order_log[2].tag = "WING"
(***************************************************************************)
(* Persistence properties (checked under SpecRestart)                      *)
(***************************************************************************)
\* every key's persisted row and the persisted scalar equal the manager's
PersistedEqualsMemory ==
    /\ DOMAIN db_positions = DOMAIN positions
    /\ \A k \in DOMAIN positions :
          /\ db_positions[k].net_qty = positions[k].net_qty
          /\ db_positions[k].avg_price = positions[k].avg_price
          /\ db_positions[k].realized_pnl = positions[k].realized_pnl
    /\ db_realized_pnl = realized_pnl

\* a manager constructed now has the old manager's values and fresh
\* unrealized P&L and trailing-stop state
LoadedEqualsMemory ==
    /\ DOMAIN positions' = DOMAIN positions
    /\ \A k \in DOMAIN positions :
          /\ positions'[k].net_qty = positions[k].net_qty
          /\ positions'[k].avg_price = positions[k].avg_price
          /\ positions'[k].realized_pnl = positions[k].realized_pnl
          /\ positions'[k].unrealized_pnl = RZero
          /\ ~positions'[k].tsl_active /\ ~positions'[k].tsl_breached
          /\ positions'[k].hwm = Unset /\ positions'[k].tsl_trigger = Unset
    /\ realized_pnl' = realized_pnl

\* C24: after any sequence of on_fill calls the persisted rows and the
\* persisted realized P&L equal the in-memory values, and a PositionManager
\* constructed afterwards holds exactly those values with unrealized P&L
\* zero and the trailing stop unarmed and not breached.
C24_SaveLoadRoundTrip ==
    /\ []PersistedEqualsMemory
    /\ [][last_op'.op = "_load_state" => LoadedEqualsMemory]_vars

\* a restart as the third call, loading a long position of 10 at 100
C24_Witness ==
    /\ last_op.op = "_load_state"
    /\ nOps = 3
    /\ <<"BANKNIFTY_CE", "I">> \in DOMAIN positions
    /\ positions[<<"BANKNIFTY_CE", "I">>].net_qty = 10
    /\ positions[<<"BANKNIFTY_CE", "I">>].avg_price = RInt(100)
    /\ ~positions[<<"BANKNIFTY_CE", "I">>].tsl_active
(***************************************************************************)
(* Exit properties (checked under SpecExit)                                *)
(***************************************************************************)
\* this step is an index tick that reached the automation block
IsIndexTick == nFeed' # nFeed /\ feed_obs'.op = "on_tick" /\ feed_obs'.symbol = "BANKNIFTY"

\* realized plus unrealized P&L at the prices published by this tick is at
\* or below minus the limit
LossLimitReached ==
    RLe(RAdd(realized_pnl,
             PnlLoop(positions, 1, RZero, LtpMap(latest_prices')).total),
        RInt(-MAX_DAILY_LOSS))

\* the closing orders for key k among the entries from..to of log
ClosingOrders(log, from, to, k) ==
    {i \in from..to : /\ log[i].origin = "EXIT"
                      /\ log[i].symbol = k[1] /\ log[i].product = k[2]}

\* C25: on every index tick on which the daily loss limit is reached or the
\* auto-exit time has passed, an EXIT sweep is executed in that tick.
C25_HardStopOnEveryTick ==
    [][IsIndexTick /\ (LossLimitReached \/ TimeReached(now'))
          => feed_obs'.sweeps >= 1 /\ ~feed_obs'.raised]_vars

\* closing quantity ordered for key k and not yet applied as a fill
RECURSIVE PendingClose(_, _, _)
PendingClose(log, i, k) ==
    IF i = 0 THEN 0
    ELSE PendingClose(log, i - 1, k)
         + (IF /\ i \in ClosingOrders(log, i, i, k)
               /\ log[i].live /\ log[i].accepted /\ log[i].fills = 0
            THEN log[i].qty ELSE 0)

BreachedOpen(k) == positions[k].net_qty # 0 /\ positions[k].tsl_breached

\* this step placed a closing order for key k
ClosedNow(k) ==
    ClosingOrders(order_log', Len(order_log) + 1, Len(order_log'), k) # {}

\* C27: with auto-trading enabled, an index tick places a closing order for
\* every open position whose trailing stop is breached, whatever its symbol,
\* and, when no hard stop and no strategy EXIT applies, for no other position.
C27_BreachClosesThatPosition ==
    [][IsIndexTick /\ auto_trading_enabled =>
          \A k \in DOMAIN positions :
              /\ BreachedOpen(k) => ClosedNow(k)
              /\ (/\ ~BreachedOpen(k) /\ ret_signal' # "EXIT"
                  /\ ~LossLimitReached /\ ~TimeReached(now')) => ~ClosedNow(k)]_vars

\* the closing order expected for key k: the opposing side, |net quantity|
ExpectedClose(k, o) ==
    /\ o.side = (IF positions[k].net_qty > 0 THEN "SELL" ELSE "BUY")
    /\ o.qty = Abs(positions[k].net_qty)

\* C28: an EXIT signal places exactly one opposing order of |net quantity|
\* with the position's product for every open position whose symbol contains
\* BANKNIFTY, and none for a flat position or another underlying, whatever
\* happens to the orders placed before it.
C28_SweepCoversEveryPosition ==
    [][feed_obs'.op = "execute_signal" /\ feed_obs'.signal = "EXIT" =>
          \A k \in DOMAIN positions :
              LET placed == ClosingOrders(order_log', Len(order_log) + 1,
                                          Len(order_log'), k)
              IN  IF Contains(k[1], "BANKNIFTY") /\ positions[k].net_qty # 0
                  THEN /\ Cardinality(placed) = 1
                       /\ \A i \in placed : ExpectedClose(k, order_log'[i])
                  ELSE placed = {}]_vars
(***************************************************************************)
(* Entry properties (checked under SpecEntry)                              *)
(***************************************************************************)
\* the buffer holds MinConfirmation scores once this tick's score is pushed
BufferFull == Len(score_buffer') = MinConfirmation

\* no signal yet, or the latest one is at least MinHoldTime old at this tick
CoolDownCleared == last_signal_time = 0 \/ now' - last_signal_time >= MinHoldTime

\* average score >= threshold / <= -threshold, on doubled scores
AvgAtLeastThreshold(buf) == SumSeq(buf) >= threshold * Len(buf)
AvgAtMostMinusThreshold(buf) == SumSeq(buf) <= -(threshold * Len(buf))

\* 2 * the momentum factor of the latest tick
LatestMomentum2(h, t) == Momentum2(h, h[Len(h)][2], t)

\* |average - momentum factor| < 1.0 and |momentum factor| >= 1.5
StraddleCondition(buf, mom2) ==
    Abs(SumSeq(buf) - mom2 * Len(buf)) < 2 * Len(buf) /\ Abs(mom2) >= 3

\* C29: from stance NONE, with the buffer full and the cool-down cleared,
\* on_tick returns BUY_CE (stance CE) exactly when the average score is at
\* least the threshold and BUY_PE (stance PE) exactly when it is at most
\* minus the threshold, also when the straddle condition holds as well.
C29_DirectionalEntry ==
    [][IsTick /\ position = "NONE" /\ BufferFull /\ CoolDownCleared =>
          /\ ret_signal' = "BUY_CE" <=> AvgAtLeastThreshold(score_buffer')
          /\ ret_signal' = "BUY_PE" <=> AvgAtMostMinusThreshold(score_buffer')
          /\ ret_signal' = "BUY_CE" => position' = "CE"
          /\ ret_signal' = "BUY_PE" => position' = "PE"]_vars

\* BUY_CE returned although straddles are enabled and the straddle condition holds
C29_Witness ==
    /\ ret_signal = "BUY_CE" /\ position = "CE" /\ ENABLE_STRADDLES
    /\ StraddleCondition(score_buffer, LatestMomentum2(price_history, now))

\* C30: on_tick returns BUY_STRADDLE only from stance NONE, with straddles
\* enabled, |average - momentum factor| < 1.0, |momentum factor| >= 1.5 and
\* neither directional condition, and then the stance is STRADDLE; with
\* straddles disabled neither the signal nor the stance ever occurs.
C30_StraddleEntry ==
    /\ [][IsTick /\ ret_signal' = "BUY_STRADDLE" =>
             /\ ENABLE_STRADDLES /\ position = "NONE" /\ position' = "STRADDLE"
             /\ StraddleCondition(score_buffer', LatestMomentum2(price_history', now'))
             /\ ~AvgAtLeastThreshold(score_buffer')
             /\ ~AvgAtMostMinusThreshold(score_buffer')]_vars
    /\ [](~ENABLE_STRADDLES => position # "STRADDLE" /\ ret_signal # "BUY_STRADDLE")

C30_Witness ==
    /\ ret_signal = "BUY_STRADDLE" /\ position = "STRADDLE" /\ ENABLE_STRADDLES
(***************************************************************************)
(* Exit-from-stance properties (checked under SpecEntry)                   *)
(***************************************************************************)
\* the exit condition of the stance held before the tick, on doubled scores:
\* CE: average < 0.5; PE: average > -0.5; STRADDLE: |momentum factor| < 0.5
\* or |average| > threshold
ExitCondition(stance, buf, mom2) ==
    CASE stance = "CE" -> SumSeq(buf) < Len(buf)
      [] stance = "PE" -> SumSeq(buf) > -Len(buf)
      [] stance = "STRADDLE" ->
            Abs(mom2) < 1 \/ Abs(SumSeq(buf)) > threshold * Len(buf)
      [] OTHER -> FALSE

\* C31: with the buffer full and the cool-down cleared, a tick in an open
\* stance returns EXIT and sets the stance to NONE exactly when the stance's
\* exit condition holds; otherwise it returns no signal and keeps the stance.
C31_ExitConditions ==
    [][IsTick /\ position \in OpenStances /\ BufferFull /\ CoolDownCleared =>
          IF ExitCondition(position, score_buffer',
                           LatestMomentum2(price_history', now'))
          THEN ret_signal' = "EXIT" /\ position' = "NONE"
          ELSE ret_signal' = "NONE" /\ position' = position]_vars

\* an EXIT from the straddle stance
C31_Witness ==
    /\ ret_signal = "EXIT" /\ position = "NONE"
    /\ Len(emitted) >= 2
    /\ emitted[Len(emitted) - 1][1] = "BUY_STRADDLE"
(***************************************************************************)
(* Score properties (checked under SpecScore)                              *)
(***************************************************************************)
\* the four factors of the observed call, doubled
FourFactors2(obs, strength, mom2) ==
    (IF RIsZero(obs.vwap) THEN 0
     ELSE IF RLt(obs.vwap, RInt(obs.price)) THEN 2
     ELSE IF RLt(RInt(obs.price), obs.vwap) THEN -2 ELSE 0)
    + (CASE obs.macro_trend = "BULLISH" -> 2
         [] obs.macro_trend = "BEARISH" -> -2
         [] OTHER -> 0)
    + (IF RLt(RInt(20), strength) THEN 3
       ELSE IF RLt(RInt(10), strength) THEN 1
       ELSE IF RLt(strength, RInt(-20)) THEN -3
       ELSE IF RLt(strength, RInt(-10)) THEN -1 ELSE 0)
    + mom2

\* the score the latest call pushed into the buffer, doubled
Pushed2(buf) == buf[Len(buf)]

\* the simulation boost: in simulation mode and stance NONE a sum above 0.5
\* gains 1.5 and a sum below -0.5 loses 1.5
Boosted2(sum2, stance) ==
    IF SIMULATION_MODE /\ stance = "NONE"
    THEN IF sum2 > 1 THEN sum2 + 3 ELSE IF sum2 < -1 THEN sum2 - 3 ELSE sum2
    ELSE sum2

\* C32 as stated: the pushed score is the sum of the four factors and lies
\* in [-5, +5].
C32_ScoreIsFourFactors ==
    [][IsTick =>
          /\ Pushed2(score_buffer')
               = FourFactors2(score_obs', calculate_weighted_strength,
                              LatestMomentum2(price_history', now'))
          /\ Abs(Pushed2(score_buffer')) <= 10]_vars

\* C32 amended: the pushed score is the sum of the four factors, boosted by
\* 1.5 away from zero when simulation mode is on, the stance is NONE and the
\* sum is beyond +/-0.5; it lies in [-6.5, +6.5], and in [-5, +5] when
\* simulation mode is off.
C32_ScoreIsFourFactorsPlusBoost ==
    [][IsTick =>
          /\ Pushed2(score_buffer')
               = Boosted2(FourFactors2(score_obs', calculate_weighted_strength,
                                       LatestMomentum2(price_history', now')),
                          position)
          /\ Abs(Pushed2(score_buffer')) <= 13
          /\ ~SIMULATION_MODE => Abs(Pushed2(score_buffer')) <= 10]_vars

\* a boosted score of 6.5: all four factors at their maximum in simulation mode
C32_Witness ==
    /\ nTicks >= 1 /\ SIMULATION_MODE
    /\ Pushed2(score_buffer) = 13
    /\ score_obs.macro_trend = "BULLISH"
(***************************************************************************)
(* Momentum properties (checked under SpecMomentum)                        *)
(***************************************************************************)
\* entries of history h recorded at least 120 s before t
AtLeastLookbackOld(h, t) == {i \in DOMAIN h : t - h[i][1] >= 120}

\* the price momentum is measured against
ReferencePrice(h, t) ==
    IF AtLeastLookbackOld(h, t) = {} THEN h[1][2]
    ELSE h[CHOOSE i \in AtLeastLookbackOld(h, t) :
                  \A j \in AtLeastLookbackOld(h, t) : j <= i][2]

ExpectedMomentum2(change) ==
    CASE change >= 60 -> 3
      [] change >= 30 /\ change < 60 -> 1
      [] change <= -60 -> -3
      [] change <= -30 /\ change > -60 -> -1
      [] OTHER -> 0

\* C33: after every on_tick the history ends with the current tick, holds
\* every earlier entry that is at most 600 s old and none older, and the
\* momentum factor is the mapped difference between the current price and
\* the most recent entry at least 120 s old (the oldest entry if none is).
C33_MomentumWindow ==
    [][IsTick =>
          /\ price_history' # <<>>
          /\ price_history'[Len(price_history')] = <<now', score_obs'.price>>
          /\ \A i \in DOMAIN price_history' : now' - price_history'[i][1] <= 600
          /\ \A i \in DOMAIN price_history :
                now' - price_history[i][1] <= 600 =>
                   \E j \in DOMAIN price_history' : price_history'[j] = price_history[i]
          /\ Len(price_history') <= Len(price_history) + 1
          /\ Pushed2(score_buffer')
               = ExpectedMomentum2(score_obs'.price
                                    - ReferencePrice(price_history', now'))]_vars

\* an entry older than 600 s has been dropped and the momentum factor is
\* measured against an entry at least 120 s old that is not the oldest
C33_Witness ==
    /\ nTicks = 4 /\ Len(price_history) = 3
    /\ now - price_history[1][1] = 520
    /\ now - price_history[2][1] = 120
    /\ Pushed2(score_buffer) = 3
    /\ price_history[1][2] = 160 /\ price_history[2][2] = 100
(***************************************************************************)
(* Trailing-stop sub-state (checked under SpecTSL)                         *)
(***************************************************************************)
\* direction-adjusted profit of pos at price ltp, in percent
AdjustedProfitPct(pos, ltp) ==
    IF pos.net_qty > 0
    THEN RDiv(RMul(RSub(ltp, pos.avg_price), RInt(100)), pos.avg_price)
    ELSE RDiv(RMul(RSub(pos.avg_price, ltp), RInt(100)), pos.avg_price)

\* hwm * (1 - trail/100) for a long, hwm * (1 + trail/100) for a short
TriggerFor(pos) ==
    IF pos.net_qty > 0
    THEN RDiv(RMul(pos.hwm, RInt(100 - TSL_TRAIL_PERCENT)), RInt(100))
    ELSE RDiv(RMul(pos.hwm, RInt(100 + TSL_TRAIL_PERCENT)), RInt(100))

\* the better of the old high-water mark and the current price
BestPrice(pos, ltp) ==
    IF pos.net_qty > 0
    THEN IF RLt(pos.hwm, ltp) THEN ltp ELSE pos.hwm
    ELSE IF RLt(ltp, pos.hwm) THEN ltp ELSE pos.hwm

PastTrigger(pos, ltp) ==
    IF pos.net_qty > 0 THEN RLt(ltp, pos.tsl_trigger) ELSE RLt(pos.tsl_trigger, ltp)

\* C34: under update_pnl an unarmed open position arms exactly when its
\* direction-adjusted profit percent reaches the hurdle, with hwm the
\* current price; an armed one keeps hwm at the best price since arming;
\* whenever armed, trigger = hwm * (1 -/+ trail/100); breached is set only
\* while armed and with the price past the trigger.
C34_TslSubState ==
    [][\A market_prices \in TslSnapshots :
          update_pnl(market_prices) =>
             \A k \in DOMAIN positions :
                positions[k].net_qty # 0 =>
                   LET pos == positions[k]
                       new == positions'[k]
                       ltp == Ltp(market_prices, k[1], pos)
                   IN  /\ ~pos.tsl_active =>
                             /\ new.tsl_active
                                  <=> RLe(RInt(TSL_PROFIT_HURDLE), AdjustedProfitPct(pos, ltp))
                             /\ new.tsl_active => new.hwm = ltp
                       /\ pos.tsl_active =>
                             new.tsl_active /\ new.hwm = BestPrice(pos, ltp)
                       /\ new.tsl_active => new.tsl_trigger = TriggerFor(new)
                       /\ new.tsl_breached /\ ~pos.tsl_breached =>
                             pos.tsl_active /\ PastTrigger(pos, ltp)]_vars
(***************************************************************************)
(* Product-class separation (checked under SpecProducts)                   *)
(***************************************************************************)
\* the positions under every key other than k are what they were
OnlyKeyChanged(k) ==
    \A j \in DOMAIN positions' :
        j # k => j \in DOMAIN positions /\ positions'[j] = positions[j]

\* C35: a step that applies a fill of an order placed with product class P
\* changes only the position keyed (instrument, P).
C35_FillStaysInProductClass ==
    [][nFeed' # nFeed /\ positions' # positions =>
          LET o == order_log'[feed_obs'.order]
          IN  OnlyKeyChanged(<<o.symbol, o.product>>)]_vars
(***************************************************************************)
(* Unrealized P&L (checked under SpecPnl)                                  *)
(***************************************************************************)
\* the snapshot price of the position's own instrument, else its average price
OwnPrice(market_prices, k, pos) ==
    IF k[1] \in DOMAIN market_prices THEN market_prices[k[1]] ELSE pos.avg_price

ExpectedUnrealized(market_prices, k, pos) ==
    IF pos.net_qty = 0 THEN RZero
    ELSE IF pos.net_qty > 0
    THEN RMul(RSub(OwnPrice(market_prices, k, pos), pos.avg_price), RInt(pos.net_qty))
    ELSE RMul(RSub(pos.avg_price, OwnPrice(market_prices, k, pos)), RInt(-pos.net_qty))

RECURSIVE SumUnrealized(_, _)
SumUnrealized(market_prices, keys) ==
    IF keys = {} THEN RZero
    ELSE LET k == CHOOSE x \in keys : TRUE
         IN  RAdd(ExpectedUnrealized(market_prices, k, positions[k]),
                  SumUnrealized(market_prices, keys \ {k}))

\* C36: a call of update_pnl that returns has set every position's
\* unrealized P&L from the snapshot price of its own instrument (its average
\* price when the instrument is absent, zero when flat) and returns the sum
\* over the open positions; no call, returning or not, changes a net
\* quantity, an average price or a realized P&L, or sets an unrealized P&L
\* to anything but the value computed from the position's own instrument.
C36_UnrealizedFromOwnInstrument ==
    [][\A market_prices \in PnlSnapshots :
          update_pnl(market_prices) =>
             /\ DOMAIN positions' = DOMAIN positions
             /\ \A k \in DOMAIN positions :
                   /\ \/ positions'[k].unrealized_pnl
                           = ExpectedUnrealized(market_prices, k, positions[k])
                      \/ /\ last_op'.raised
                         /\ positions'[k].unrealized_pnl = positions[k].unrealized_pnl
                   /\ positions'[k].net_qty = positions[k].net_qty
                   /\ positions'[k].avg_price = positions[k].avg_price
                   /\ positions'[k].realized_pnl = positions[k].realized_pnl
             /\ ~last_op'.raised =>
                   last_op'.ret = SumUnrealized(market_prices, DOMAIN positions)
             /\ realized_pnl' = realized_pnl]_vars

\* update_pnl returned -300 for a long of 10 at 100 priced 90 and a short
\* of 10 at 100 priced 120
C36_Witness ==
    /\ last_op.op = "update_pnl" /\ ~last_op.raised
    /\ last_op.ret = RInt(-300)
    /\ K1 \in DOMAIN positions /\ K3 \in DOMAIN positions
    /\ positions[K1].net_qty = 10 /\ positions[K1].unrealized_pnl = RInt(-100)
    /\ positions[K3].net_qty = -10 /\ positions[K3].unrealized_pnl = RInt(-200)

\* C38: update_pnl never fails: no call raises, and every position with a
\* non-zero net quantity has a non-zero average price.
C38_UpdatePnlNeverFails ==
    /\ last_op.op = "update_pnl" => ~last_op.raised
    /\ \A k \in DOMAIN positions :
          positions[k].net_qty # 0 => ~RIsZero(positions[k].avg_price)
(***************************************************************************)
(* Volume baseline and VWAP quotient (checked under SpecFeed and SpecSeed) *)
(***************************************************************************)
\* C37: after a processed tick whose cumulative volume is positive and below
\* the last-seen volume of its instrument, the baseline is that lower value.
C37_DecreaseResetsBaseline ==
    [][(/\ IsFeedTick
        /\ ~Dropped(feed_obs'.symbol, feed_obs'.price)
        /\ feed_obs'.symbol \in DOMAIN vwap_map
        /\ feed_obs'.volume > 0
        /\ feed_obs'.volume < vwap_map[feed_obs'.symbol].last_vol) =>
           vwap_map'[feed_obs'.symbol].last_vol = feed_obs'.volume]_vars

\* C39: whenever on_tick evaluates cum_pv / cum_vol (tick volume > 0, or
\* cum_vol > 0) cum_vol is positive and the tick does not fail, and in every
\* state a positive baseline implies a positive cum_vol.
C39_CumVolPositiveWhenDivided ==
    /\ [][(IsFeedTick /\ ~Dropped(feed_obs'.symbol, feed_obs'.price)) =>
             LET st == vwap_map'[feed_obs'.symbol]
             IN  (feed_obs'.volume > 0 \/ st.cum_vol > 0) =>
                    st.cum_vol > 0 /\ ~feed_obs'.raised]_vars
    /\ [](\A s \in DOMAIN vwap_map : vwap_map[s].last_vol > 0 => vwap_map[s].cum_vol > 0)

\* seeded with volume 15, then a tick with cumulative volume 10: the
\* quotient is evaluated on the seeded totals
C39_Witness ==
    /\ feed_obs.op = "on_tick" /\ feed_obs.symbol = "HDFCBANK"
    /\ feed_obs.volume = 10 /\ ~feed_obs.raised
    /\ vwap_map["HDFCBANK"] = [cum_vol |-> 15, cum_pv |-> 1600, last_vol |-> 15]
    /\ latest_prices["HDFCBANK"].vwap = RNorm(1600, 15)

====
